---- MODULE Spec2Model ----
(***************************************************************************)
(* A model of the example life cycle of webgpu-native-examples:            *)
(* example_initialize / example_render / example_destroy of the three      *)
(* examples reversed_z, textured_quad and compute_particles, with the      *)
(* render-pass descriptors, the GPU handles held in module state and the   *)
(* calls each frame records and submits.                                   *)
(*                                                                         *)
(* One behaviour runs one example (each example is its own process); the   *)
(* example is chosen in Init.                                              *)
(***************************************************************************)
EXTENDS Integers, Sequences, FiniteSets, TLC

(* ----------------------------- bounds ---------------------------------- *)
MaxFrames == 2     \* example_render calls that draw, per behaviour
NumViews == 2      \* distinct swap-chain views prepare_frame can hand out
MaxDestroys == 2   \* example_destroy calls per behaviour
MaxFailFrames == 1 \* drawing example_render calls after a failed create call
MaxEntry == 1      \* view-projection entries lie in -MaxEntry .. MaxEntry
MaxEdits == 2      \* entries of the identity replaced to form a view-projection

Examples == {"reversed_z", "textured_quad", "compute_particles"}

(* ------------------------- C values ------------------------------------ *)
\* A float is <<integer part, thousandths>>; all floats of the model are >= 0.
Float(i, f) == <<i, f>>
\* C conversion of a float to an integer type: truncation toward zero.
TruncToInt(x) == x[1]

NULL == 0
NullPtr == <<>>

\* webgpu.h enumerators used by the descriptors (numbering of the header
\* generation that still has WGPURasterizationStateDescriptor / clearDepth).
WGPULoadOp_Clear == 0
WGPULoadOp_Load == 1
WGPUStoreOp_Store == 0

(* ------------------------- the example registry ------------------------ *)
\* g_example_cases: the example_name of each entry, in table order (the
\* example_func of an entry is the function example_<name>).  The address
\* &g_example_cases[i] is the position i + 1; NULL is 0.
g_example_cases ==
  << "animometer", "basisu", "bind_groups", "bloom", "clear_screen",
    "compute_boids", "compute_particles", "compute_particles_easing",
    "compute_particles_webgpu_logo", "compute_ray_tracing",
    "compute_shader", "conservative_raster", "conway",
    "conway_paletted_blurring", "coordinate_system", "cube_reflection",
    "cubemap", "deferred_rendering", "dynamic_uniform_buffer",
    "equirectangular_image", "gears", "gerstner_waves", "gltf_loading",
    "gltf_scene_rendering", "hdr", "image_blur", "imgui_overlay",
    "immersive_video", "instanced_cube", "minimal", "msaa_line",
    "multi_sampling", "n_body_simulation", "occlusion_query",
    "offscreen_rendering", "parallax_mapping", "pbr_basic", "pbr_ibl",
    "pbr_texture", "post_processing", "prng", "procedural_mesh",
    "radial_blur", "reversed_z", "screenshot", "shadertoy",
    "shadow_mapping", "skybox", "square", "stencil_buffer", "terrain_mesh",
    "text_overlay", "texture_3d", "texture_mipmap_gen", "textured_cube",
    "textured_quad", "triangle", "two_cubes", "video_uploading",
    "wireframe_vertex_pulling" >>

\* .example_func of each entry of g_example_cases, in the same order.
g_example_case_funcs ==
  << "example_animometer", "example_basisu", "example_bind_groups",
     "example_bloom", "example_clear_screen", "example_compute_boids",
     "example_compute_particles", "example_compute_particles_easing",
     "example_compute_particles_webgpu_logo", "example_compute_ray_tracing",
     "example_compute_shader", "example_conservative_raster",
     "example_conway", "example_conway_paletted_blurring",
     "example_coordinate_system", "example_cube_reflection",
     "example_cubemap", "example_deferred_rendering",
     "example_dynamic_uniform_buffer", "example_equirectangular_image",
     "example_gears", "example_gerstner_waves", "example_gltf_loading",
     "example_gltf_scene_rendering", "example_hdr", "example_image_blur",
     "example_imgui_overlay", "example_immersive_video",
     "example_instanced_cube", "example_minimal", "example_msaa_line",
     "example_multi_sampling", "example_n_body_simulation",
     "example_occlusion_query", "example_offscreen_rendering",
     "example_parallax_mapping", "example_pbr_basic", "example_pbr_ibl",
     "example_pbr_texture", "example_post_processing", "example_prng",
     "example_procedural_mesh", "example_radial_blur", "example_reversed_z",
     "example_screenshot", "example_shadertoy", "example_shadow_mapping",
     "example_skybox", "example_square", "example_stencil_buffer",
     "example_terrain_mesh", "example_text_overlay", "example_texture_3d",
     "example_texture_mipmap_gen", "example_textured_cube",
     "example_textured_quad", "example_triangle", "example_two_cubes",
     "example_video_uploading", "example_wireframe_vertex_pulling" >>

\* The <n> of every declaration void example_<n>(int argc, char* argv[])
\* that is not commented out, in the order of the file.
example_declarations ==
  << "animometer", "basisu", "bind_groups", "bloom", "clear_screen",
     "compute_boids", "compute_n_body", "compute_particles",
     "compute_particles_easing", "compute_particles_webgpu_logo",
     "compute_ray_tracing", "compute_shader", "conservative_raster",
     "conway", "conway_paletted_blurring", "coordinate_system",
     "cube_reflection", "cubemap", "deferred_rendering",
     "dynamic_uniform_buffer", "equirectangular_image", "gears",
     "gerstner_waves", "gltf_loading", "gltf_scene_rendering", "hdr",
     "image_blur", "imgui_overlay", "immersive_video", "instanced_cube",
     "minimal", "msaa_line", "multi_sampling", "n_body_simulation",
     "occlusion_query", "offscreen_rendering", "parallax_mapping",
     "pbr_basic", "pbr_ibl", "pbr_texture", "post_processing", "prng",
     "procedural_mesh", "radial_blur", "reversed_z", "screenshot",
     "shadertoy", "shadow_mapping", "skybox", "square", "stencil_buffer",
     "terrain_mesh", "text_overlay", "texture_3d", "texture_mipmap_gen",
     "textured_cube", "textured_quad", "triangle", "two_cubes",
     "video_uploading", "wireframe_vertex_pulling" >>

get_number_of_examples == Len(g_example_cases)

\* The for loop of get_example_by_name from C index i on: the first entry
\* whose name strcmp finds equal, NULL when the loop runs out.
RECURSIVE get_example_by_name_loop(_, _)
get_example_by_name_loop(example_name, i) ==
  IF ~(i < get_number_of_examples) THEN NULL
  ELSE IF g_example_cases[i + 1] = example_name THEN i + 1
  ELSE get_example_by_name_loop(example_name, i + 1)

\* Faulty variant of get_example_by_name: the loop starts at index 1.
get_example_by_name_SkipsFirst(example_name) ==
  get_example_by_name_loop(example_name, 1)

get_example_by_name(example_name) == get_example_by_name_loop(example_name, 0)

RenderMode_Color == 0
RenderMode_Precision_Error == 1
RenderMode_Depth_Texture_Quad == 2
RenderModes == {RenderMode_Color, RenderMode_Precision_Error,
                RenderMode_Depth_Texture_Quad}

DepthBufferMode_Default == 0
DepthBufferMode_Reversed == 1
depth_buffer_modes == <<DepthBufferMode_Default, DepthBufferMode_Reversed>>

depth_compare_funcs == [m \in {0, 1} |-> IF m = 0 THEN "Less" ELSE "Greater"]
depth_load_values == [m \in {0, 1} |-> IF m = 0 THEN Float(1, 0) ELSE Float(0, 0)]

DEFAULT_CANVAS_WIDTH == 600
DEFAULT_CANVAS_HEIGHT == 600
default_canvas_width == DEFAULT_CANVAS_WIDTH
default_canvas_height == DEFAULT_CANVAS_HEIGHT
viewport_width == default_canvas_width \div 2
geometry_draw_count == 6 * 2
X_COUNT == 1
Y_COUNT == 5
num_instances == X_COUNT * Y_COUNT
PARTICLE_COUNT == 256 * 1024

\* Sizes in bytes; MATRIX_FLOAT_COUNT is sizeof(mat4).
SizeofFloat == 4
SizeofMat4 == 4 * 4 * SizeofFloat
MATRIX_FLOAT_COUNT == SizeofMat4
\* Faulty variant of matrix_float_count: the number of floats of a mat4.
matrix_float_count_Floats == SizeofMat4 \div SizeofFloat
matrix_float_count == MATRIX_FLOAT_COUNT
matrix_stride == 4 * matrix_float_count
\* float mvp_matrices_data[NUM_INSTANCES * MATRIX_FLOAT_COUNT]: its elements
\* and its size in bytes.
mvp_matrices_data_count == num_instances * MATRIX_FLOAT_COUNT
sizeof_mvp_matrices_data == mvp_matrices_data_count * SizeofFloat
uniform_buffer_size == num_instances * matrix_stride

(* ----------------------- descriptor values ----------------------------- *)
Color(r, g, b, a) == [r |-> r, g |-> g, b |-> b, a |-> a]
ZeroColor == Color(Float(0, 0), Float(0, 0), Float(0, 0), Float(0, 0))

\* A zero-initialised static object: every field 0 / NULL.
ZeroColorAtt == [view |-> NULL, attachment |-> NULL, loadOp |-> 0,
                 storeOp |-> 0, clearColor |-> ZeroColor]
ZeroDsAtt == [view |-> NULL, depthLoadOp |-> 0, depthStoreOp |-> 0,
              clearDepth |-> Float(0, 0), stencilLoadOp |-> 0,
              stencilStoreOp |-> 0, clearStencil |-> 0]
ZeroPassDesc == [colorAttachmentCount |-> 0, colorAttachments |-> NullPtr,
                 depthStencilAttachment |-> NullPtr]

\* All descriptor objects of the three files, at their static initial value.
ZeroDescs ==
  [dppd_rp_ds_att_descriptor |-> ZeroDsAtt,
   depth_pre_pass_descriptor |-> ZeroPassDesc,
   dpd_rp_color_att_descriptors |-> [m \in {0, 1} |-> ZeroColorAtt],
   dpd_rp_ds_att_descriptors |-> [m \in {0, 1} |-> ZeroDsAtt],
   draw_pass_descriptors |-> [m \in {0, 1} |-> ZeroPassDesc],
   tqd_rp_color_att_descriptors |-> [m \in {0, 1} |-> ZeroColorAtt],
   texture_quad_pass_descriptors |-> [m \in {0, 1} |-> ZeroPassDesc],
   rp_color_att_descriptors |-> [m \in {0} |-> ZeroColorAtt],
   render_pass_desc |-> ZeroPassDesc,
   depth_stencil_att_desc |-> ZeroDsAtt]

\* The object a descriptor pointer refers to: <<variable>> or <<array, index>>.
Deref(d, p) == IF Len(p) = 1 THEN d[p[1]] ELSE d[p[1]][p[2]]

\* What wgpuCommandEncoderBeginRenderPass reads through a pass descriptor.
Snapshot(d, pd) ==
  [colorAttachmentCount |-> pd.colorAttachmentCount,
   color |-> IF pd.colorAttachments = NullPtr THEN <<>>
             ELSE <<Deref(d, pd.colorAttachments)>>,
   ds |-> IF pd.depthStencilAttachment = NullPtr THEN <<>>
          ELSE <<Deref(d, pd.depthStencilAttachment)>>]

(* --------------------------- handle slots ------------------------------ *)
depth_pre_pass_pipelines ==
  [m \in {0, 1} |-> IF m = 0 THEN "depth_pre_pass_pipelines[0]"
                    ELSE "depth_pre_pass_pipelines[1]"]
precision_pass_pipelines ==
  [m \in {0, 1} |-> IF m = 0 THEN "precision_pass_pipelines[0]"
                    ELSE "precision_pass_pipelines[1]"]
color_pass_pipelines ==
  [m \in {0, 1} |-> IF m = 0 THEN "color_pass_pipelines[0]"
                    ELSE "color_pass_pipelines[1]"]
uniform_bind_groups ==
  [m \in {0, 1} |-> IF m = 0 THEN "uniform_bind_groups[0]"
                    ELSE "uniform_bind_groups[1]"]

\* One step of an example_initialize: fn is the function it belongs to, kind
\* is "create" (call returns handles stored in slots), "shader_release",
\* "write" (wgpu_queue_write_buffer to slots[1]) or "desc" (a descriptor
\* preparation function); reads are the module slots the step consumes;
\* asserted tells whether the result is checked by ASSERT(... != NULL).
Step(fn, kind, call, slots, reads, asserted) ==
  [fn |-> fn, kind |-> kind, call |-> call, slots |-> slots,
   reads |-> reads, asserted |-> asserted]

\* Faulty variant of PipelineSteps: the shaders are released before the
\* pipelines are created.
PipelineSteps_ReleaseFirst(fn, pipes, spv) ==
  << Step(fn, "create", "wgpu_shader_create", <<"vert_shader">>, {}, FALSE),
     Step(fn, "create", "wgpu_shader_create", <<"frag_shader">>, {}, FALSE),
     Step(fn, "shader_release", "wgpu_shader_release", <<"frag_shader">>, {}, FALSE),
     Step(fn, "shader_release", "wgpu_shader_release", <<"vert_shader">>, {}, FALSE) >>
  \o [i \in 1..Len(pipes) |->
        Step(fn, "create", "wgpuDeviceCreateRenderPipeline", <<pipes[i]>>,
             {"vert_shader", "frag_shader"} \cup spv, FALSE)]

\* A pipeline-preparation function: two shaders, the pipelines, the releases.
PipelineSteps(fn, pipes, spv) ==
  << Step(fn, "create", "wgpu_shader_create", <<"vert_shader">>, {}, FALSE),
     Step(fn, "create", "wgpu_shader_create", <<"frag_shader">>, {}, FALSE) >>
  \o [i \in 1..Len(pipes) |->
        Step(fn, "create", "wgpuDeviceCreateRenderPipeline", <<pipes[i]>>,
             {"vert_shader", "frag_shader"} \cup spv, FALSE)]
  \o << Step(fn, "shader_release", "wgpu_shader_release", <<"frag_shader">>, {}, FALSE),
        Step(fn, "shader_release", "wgpu_shader_release", <<"vert_shader">>, {}, FALSE) >>

reversed_z_example_initialize ==
  << Step("prepare_vertex_buffer", "create", "wgpu_create_buffer_from_data",
          <<"vertices.buffer">>, {}, FALSE) >>
  \o PipelineSteps("prepare_depth_pre_pass_render_pipeline",
                   <<depth_pre_pass_pipelines[0], depth_pre_pass_pipelines[1]>>, {})
  \o PipelineSteps("prepare_precision_pass_render_pipeline",
                   <<precision_pass_pipelines[0], precision_pass_pipelines[1]>>, {})
  \o PipelineSteps("prepare_color_pass_render_pipeline",
                   <<color_pass_pipelines[0], color_pass_pipelines[1]>>, {})
  \o PipelineSteps("prepare_texture_quad_pass_render_pipeline",
                   <<"texture_quad_pass_pipeline">>, {})
  \o << Step("prepare_depth_textures", "create", "wgpuDeviceCreateTexture",
             <<"depth_texture.texture">>, {}, FALSE),
        Step("prepare_depth_textures", "create", "wgpuTextureCreateView",
             <<"depth_texture.view">>, {"depth_texture.texture"}, FALSE),
        Step("prepare_depth_textures", "create", "wgpuDeviceCreateSampler",
             <<"depth_texture.sampler">>, {}, FALSE),
        Step("prepare_depth_textures", "create", "wgpuDeviceCreateTexture",
             <<"default_depth_texture.texture">>, {}, FALSE),
        Step("prepare_depth_textures", "create", "wgpuTextureCreateView",
             <<"default_depth_texture.view">>, {"default_depth_texture.texture"}, FALSE),
        Step("prepare_depth_textures", "create", "wgpuDeviceCreateSampler",
             <<"default_depth_texture.sampler">>, {}, FALSE),
        Step("prepare_depth_pre_pass_descriptor", "desc", "", <<>>,
             {"depth_texture.view"}, FALSE),
        Step("prepare_draw_pass_descriptors", "desc", "", <<>>,
             {"default_depth_texture.view"}, FALSE),
        Step("prepare_texture_quad_pass_descriptors", "desc", "", <<>>, {}, FALSE),
        Step("prepare_depth_texture_bind_group_layout", "create",
             "wgpuDeviceCreateBindGroupLayout",
             <<"depth_texture_bind_group_layout">>, {}, TRUE),
        Step("prepare_depth_texture_bind_group", "create",
             "wgpuDeviceCreateBindGroup", <<"depth_texture_bind_group">>,
             {"depth_texture.view", "depth_texture.sampler",
              "depth_texture_bind_group_layout"}, TRUE),
        Step("prepare_uniform_buffers", "create", "wgpuDeviceCreateBuffer",
             <<"uniform_buffer">>, {}, FALSE),
        Step("prepare_uniform_buffers", "create", "wgpuDeviceCreateBuffer",
             <<"camera_matrix_buffer">>, {}, FALSE),
        Step("prepare_uniform_buffers", "create", "wgpuDeviceCreateBuffer",
             <<"camera_matrix_reversed_depth_buffer">>, {}, FALSE),
        Step("setup_uniform_bind_groups", "create", "wgpuDeviceCreateBindGroup",
             <<uniform_bind_groups[0]>>,
             {"uniform_buffer", "camera_matrix_buffer",
              depth_pre_pass_pipelines[0]}, FALSE),
        Step("setup_uniform_bind_groups", "create", "wgpuDeviceCreateBindGroup",
             <<uniform_bind_groups[1]>>,
             {"uniform_buffer", "camera_matrix_reversed_depth_buffer",
              depth_pre_pass_pipelines[1]}, FALSE),
        Step("init_uniform_buffers", "write", "wgpu_queue_write_buffer",
             <<"camera_matrix_buffer">>, {"camera_matrix_buffer"}, FALSE),
        Step("init_uniform_buffers", "write", "wgpu_queue_write_buffer",
             <<"camera_matrix_reversed_depth_buffer">>,
             {"camera_matrix_reversed_depth_buffer"}, FALSE) >>

SizeofUboVs == 2 * 64 + 16 + 4  \* mat4, mat4, vec4, float (padding aside)

textured_quad_example_initialize ==
  << Step("setup_camera", "create", "camera_create", <<"context->camera">>, {}, FALSE),
     Step("load_texture", "create", "wgpu_texture_load_from_ktx_file",
          <<"texture.texture", "texture.view", "texture.sampler">>, {}, FALSE),
     Step("generate_quad", "create", "wgpu_create_buffer_from_data",
          <<"vertices.buffer">>, {}, FALSE),
     Step("generate_quad", "create", "wgpu_create_buffer_from_data",
          <<"indices.buffer">>, {}, FALSE),
     Step("setup_pipeline_layout", "create", "wgpuDeviceCreateBindGroupLayout",
          <<"bind_group_layout">>, {"uniform_buffer_vs.size"}, TRUE),
     Step("setup_pipeline_layout", "create", "wgpuDeviceCreatePipelineLayout",
          <<"pipeline_layout">>, {"bind_group_layout"}, TRUE),
     Step("prepare_uniform_buffers", "create", "wgpu_create_buffer_from_data",
          <<"uniform_buffer_vs.buffer">>, {}, FALSE),
     Step("prepare_uniform_buffers", "assign", "sizeof",
          <<"uniform_buffer_vs.size">>, {}, FALSE),
     Step("update_uniform_buffers", "write", "wgpu_queue_write_buffer",
          <<"uniform_buffer_vs.buffer">>, {"uniform_buffer_vs.buffer"}, FALSE),
     Step("setup_uniform_bind_group_layout", "create", "wgpuDeviceCreateBindGroup",
          <<"bind_group">>,
          {"uniform_buffer_vs.buffer", "uniform_buffer_vs.size", "texture.view",
           "texture.sampler", "bind_group_layout"}, TRUE) >>
  \o PipelineSteps("prepare_pipelines", <<"pipeline">>, {"pipeline_layout"})
  \o << Step("setup_render_pass", "desc", "", <<>>, {}, FALSE) >>

compute_particles_example_initialize ==
  << Step("load_assets", "create", "wgpu_texture_load_from_ktx_file",
          <<"textures.particle.texture", "textures.particle.view",
            "textures.particle.sampler">>, {}, FALSE),
     Step("load_assets", "create", "wgpu_texture_load_from_ktx_file",
          <<"textures.gradient.texture", "textures.gradient.view",
            "textures.gradient.sampler">>, {}, FALSE),
     Step("prepare_storage_buffers", "create", "wgpu_create_buffer_from_data",
          <<"compute.storage_buffer">>, {}, FALSE),
     Step("prepare_uniform_buffers", "create", "wgpuDeviceCreateBuffer",
          <<"compute.uniform_buffer">>, {}, FALSE),
     Step("update_uniform_buffers", "write", "wgpu_queue_write_buffer",
          <<"compute.uniform_buffer">>, {"compute.uniform_buffer"}, FALSE),
     Step("setup_pipeline_layout", "create", "wgpuDeviceCreateBindGroupLayout",
          <<"graphics.bind_group_layout">>, {}, TRUE),
     Step("setup_pipeline_layout", "create", "wgpuDeviceCreatePipelineLayout",
          <<"graphics.pipeline_layout">>, {"graphics.bind_group_layout"}, TRUE) >>
  \o PipelineSteps("prepare_pipelines", <<"graphics.pipeline">>,
                   {"graphics.pipeline_layout"})
  \o << Step("setup_bind_groups", "create", "wgpuDeviceCreateBindGroup",
             <<"graphics.bind_group">>,
             {"textures.particle.view", "textures.particle.sampler",
              "textures.gradient.view", "textures.gradient.sampler",
              "graphics.bind_group_layout"}, TRUE),
        Step("setup_render_pass", "desc", "", <<>>, {}, FALSE),
        Step("prepare_compute", "create", "wgpuDeviceCreateBindGroupLayout",
             <<"compute.bind_group_layout">>, {}, TRUE),
        Step("prepare_compute", "create", "wgpuDeviceCreatePipelineLayout",
             <<"compute.pipeline_layout">>, {"compute.bind_group_layout"}, TRUE),
        Step("prepare_compute", "create", "wgpuDeviceCreateBindGroup",
             <<"compute.bind_group">>,
             {"compute.storage_buffer", "compute.uniform_buffer",
              "compute.bind_group_layout"}, FALSE),
        Step("prepare_compute", "create", "wgpu_shader_create",
             <<"particle_comp_shader">>, {}, FALSE),
        Step("prepare_compute", "create", "wgpuDeviceCreateComputePipeline",
             <<"compute.pipeline">>,
             {"compute.pipeline_layout", "particle_comp_shader"}, FALSE),
        Step("prepare_compute", "shader_release", "wgpu_shader_release",
             <<"particle_comp_shader">>, {}, FALSE) >>

\* The steps example_initialize of example e runs, in program order.
InitSteps(e) ==
  CASE e = "reversed_z" -> reversed_z_example_initialize
    [] e = "textured_quad" -> textured_quad_example_initialize
    [] e = "compute_particles" -> compute_particles_example_initialize

Range(s) == {s[i] : i \in DOMAIN s}
SlotsOf(steps) ==
  UNION {Range(steps[i].slots) \cup steps[i].reads : i \in DOMAIN steps}
AllSlots == UNION {SlotsOf(InitSteps(e)) : e \in Examples}
\* The steps that call into the device or the asset loader and can fail.
CreateSteps(e) ==
  {i \in DOMAIN InitSteps(e) : InitSteps(e)[i].kind = "create"}

(* ------------------- descriptor preparation ---------------------------- *)
prepare_depth_pre_pass_descriptor(d, h) ==
  [d EXCEPT
     !.dppd_rp_ds_att_descriptor =
        [view |-> h["depth_texture.view"],
         depthLoadOp |-> WGPULoadOp_Clear, depthStoreOp |-> WGPUStoreOp_Store,
         clearDepth |-> Float(1, 0),
         stencilLoadOp |-> WGPULoadOp_Clear, stencilStoreOp |-> WGPUStoreOp_Store,
         clearStencil |-> 0],
     !.depth_pre_pass_descriptor =
        [colorAttachmentCount |-> 0, colorAttachments |-> NullPtr,
         depthStencilAttachment |-> <<"dppd_rp_ds_att_descriptor">>]]

prepare_draw_pass_descriptors(d, h) ==
  [d EXCEPT
     !.dpd_rp_color_att_descriptors =
        [m \in {0, 1} |->
           IF m = 0
           THEN [view |-> NULL, attachment |-> NULL,
                 loadOp |-> WGPULoadOp_Clear, storeOp |-> WGPUStoreOp_Store,
                 clearColor |-> Color(Float(0, 0), Float(0, 0), Float(0, 500),
                                      Float(1, 0))]
           ELSE [ZeroColorAtt EXCEPT !.view = NULL, !.loadOp = WGPULoadOp_Load]],
     !.dpd_rp_ds_att_descriptors =
        [m \in {0, 1} |->
           [view |-> h["default_depth_texture.view"],
            depthLoadOp |-> IF m = 0 THEN WGPULoadOp_Clear ELSE WGPULoadOp_Load,
            depthStoreOp |-> WGPUStoreOp_Store,
            clearDepth |-> Float(1, 0),
            stencilLoadOp |-> WGPULoadOp_Clear,
            stencilStoreOp |-> WGPUStoreOp_Store,
            clearStencil |-> 0]],
     !.draw_pass_descriptors =
        [m \in {0, 1} |->
           [colorAttachmentCount |-> 1,
            colorAttachments |-> <<"dpd_rp_color_att_descriptors", m>>,
            depthStencilAttachment |-> <<"dpd_rp_ds_att_descriptors", m>>]]]

\* Faulty variant of prepare_texture_quad_pass_descriptors: the second colour
\* attachment clears as well.
prepare_texture_quad_pass_descriptors_BothClear(d, h) ==
  [d EXCEPT
     !.tqd_rp_color_att_descriptors =
        [m \in {0, 1} |->
           [view |-> NULL, attachment |-> NULL,
            loadOp |-> WGPULoadOp_Clear, storeOp |-> WGPUStoreOp_Store,
            clearColor |-> Color(Float(0, 0), Float(0, 0), Float(0, 500),
                                 Float(1, 0))]],
     !.texture_quad_pass_descriptors =
        [m \in {0, 1} |->
           [colorAttachmentCount |-> 1,
            colorAttachments |-> <<"tqd_rp_color_att_descriptors", m>>,
            depthStencilAttachment |-> NullPtr]]]

prepare_texture_quad_pass_descriptors(d, h) ==
  [d EXCEPT
     !.tqd_rp_color_att_descriptors =
        [m \in {0, 1} |->
           IF m = 0
           THEN [view |-> NULL, attachment |-> NULL,
                 loadOp |-> WGPULoadOp_Clear, storeOp |-> WGPUStoreOp_Store,
                 clearColor |-> Color(Float(0, 0), Float(0, 0), Float(0, 500),
                                      Float(1, 0))]
           ELSE [ZeroColorAtt EXCEPT !.view = NULL, !.loadOp = WGPULoadOp_Load]],
     !.texture_quad_pass_descriptors =
        [m \in {0, 1} |->
           [colorAttachmentCount |-> 1,
            colorAttachments |-> <<"tqd_rp_color_att_descriptors", m>>,
            depthStencilAttachment |-> NullPtr]]]

\* setup_render_pass of textured_quad (clear colour c = black) and of
\* compute_particles (c = 0.025 grey); the depth attachment belongs to the
\* context and is filled by wgpu_setup_deph_stencil.
setup_render_pass(d, c) ==
  [d EXCEPT
     !.rp_color_att_descriptors =
        [m \in {0} |->
           [view |-> NULL, attachment |-> NULL,
            loadOp |-> WGPULoadOp_Clear, storeOp |-> WGPUStoreOp_Store,
            clearColor |-> c]],
     !.render_pass_desc =
        [colorAttachmentCount |-> 1,
         colorAttachments |-> <<"rp_color_att_descriptors", 0>>,
         depthStencilAttachment |-> <<"depth_stencil_att_desc">>]]

PrepareDescriptors(e, fn, d, h) ==
  CASE fn = "prepare_depth_pre_pass_descriptor" -> prepare_depth_pre_pass_descriptor(d, h)
    [] fn = "prepare_draw_pass_descriptors" -> prepare_draw_pass_descriptors(d, h)
    [] fn = "prepare_texture_quad_pass_descriptors" ->
         prepare_texture_quad_pass_descriptors(d, h)
    [] fn = "setup_render_pass" /\ e = "textured_quad" ->
         setup_render_pass(d, Color(Float(0, 0), Float(0, 0), Float(0, 0), Float(1, 0)))
    [] fn = "setup_render_pass" /\ e = "compute_particles" ->
         setup_render_pass(d, Color(Float(0, 25), Float(0, 25), Float(0, 25), Float(1, 0)))

(* ------------------------- queue and frame logs ------------------------ *)
RECURSIVE QueuedPasses(_, _), QueuedBuffers(_, _)
\* An entry of the device queue's timeline: a buffer write or a submission of
\* command buffers.  The timeline keeps of each submitted pass what the queue
\* executes from module state: its kind, its variant and the slots of the
\* pipeline, bind groups and vertex buffer it was recorded with.
QWrite(buffer) == [op |-> "write", buffer |-> buffer, cmds |-> <<>>]
QueuedPass(p) ==
  [kind |-> p.kind, m |-> p.m, pipeline_slot |-> p.pipeline_slot,
   bind_group_slots |-> p.bind_group_slots, vertex_slot |-> p.vertex_slot]
QueuedPasses(cb, k) ==
  IF k > Len(cb) THEN <<>> ELSE <<QueuedPass(cb[k])>> \o QueuedPasses(cb, k + 1)
QueuedBuffers(cmds, c) ==
  IF c > Len(cmds) THEN <<>>
  ELSE <<QueuedPasses(cmds[c], 1)>> \o QueuedBuffers(cmds, c + 1)
QSubmit(cmds) ==
  [op |-> "submit", buffer |-> "", cmds |-> QueuedBuffers(cmds, 1)]

\* An API call made by one example_render: idx is the pass it is about
\* (0: none), buf the buffer slot it writes ("": none).
Ev(op, idx, buf) == [op |-> op, idx |-> idx, buf |-> buf]

(* ------------------- reversed_z pipeline descriptors ------------------- *)
\* Faulty variant of render_pipeline_descriptor: depthCompare keeps the value
\* Less assigned after wgpu_create_depth_stencil_state_descriptor.
render_pipeline_descriptor_AlwaysLess(fn, m) ==
  [vertexStage |-> "vert_shader", fragmentStage |-> "frag_shader",
   rasterizationState |-> [front_face |-> "CCW", cull_mode |-> "Back"],
   primitiveTopology |-> "TriangleList",
   colorStateCount |-> IF fn = "prepare_depth_pre_pass_render_pipeline" THEN 0 ELSE 1,
   colorStates |-> IF fn = "prepare_depth_pre_pass_render_pipeline" THEN <<>>
                   ELSE <<[format |-> "swap_chain.format", enable_blend |-> TRUE]>>,
   depthStencilState |-> [format |-> "Depth32Float", depth_write_enabled |-> TRUE,
                          depthCompare |-> "Less"],
   vertexState |-> fn, sampleCount |-> 1, sampleMask |-> "0xFFFFFFFF",
   alphaToCoverageEnabled |-> FALSE]

\* What wgpuDeviceCreateRenderPipeline reads through the descriptor of
\* prepare_depth_pre_pass_render_pipeline, prepare_precision_pass_render_pipeline
\* or prepare_color_pass_render_pipeline (fn) when the pipeline of depth
\* buffer mode m is created: the base descriptor points to the local
\* depth_stencil_state_desc, whose depthCompare is assigned before each call.
render_pipeline_descriptor(fn, m) ==
  LET depth_stencil_state_desc ==
        [format |-> "Depth32Float", depth_write_enabled |-> TRUE,
         depthCompare |-> "Less"]
  IN [vertexStage |-> "vert_shader", fragmentStage |-> "frag_shader",
      rasterizationState |-> [front_face |-> "CCW", cull_mode |-> "Back"],
      primitiveTopology |-> "TriangleList",
      colorStateCount |-> IF fn = "prepare_depth_pre_pass_render_pipeline" THEN 0 ELSE 1,
      colorStates |-> IF fn = "prepare_depth_pre_pass_render_pipeline" THEN <<>>
                      ELSE <<[format |-> "swap_chain.format", enable_blend |-> TRUE]>>,
      depthStencilState |->
        [depth_stencil_state_desc EXCEPT !.depthCompare = depth_compare_funcs[m]],
      vertexState |-> fn, sampleCount |-> 1, sampleMask |-> "0xFFFFFFFF",
      alphaToCoverageEnabled |-> FALSE]

\* The three pipeline families that exist once per depth buffer mode.
PipelineFamilies ==
  {depth_pre_pass_pipelines, precision_pass_pipelines, color_pass_pipelines}

\* Faulty variant of uniform_bind_group_descriptor: the second block binds
\* the camera buffer of the first.
uniform_bind_group_descriptor_SameCamera(m) ==
  [layout |-> depth_pre_pass_pipelines[m],
   entryCount |-> 2,
   entries |-> << [binding |-> 0, buffer |-> "uniform_buffer",
                   size |-> uniform_buffer_size],
                  [binding |-> 1, buffer |-> "camera_matrix_buffer",
                   size |-> SizeofMat4] >>]

\* The descriptor of the bind group setup_uniform_bind_groups creates for
\* depth buffer mode m; layout names the pipeline whose layout 0 is asked.
uniform_bind_group_descriptor(m) ==
  [layout |-> depth_pre_pass_pipelines[m],
   entryCount |-> 2,
   entries |-> << [binding |-> 0, buffer |-> "uniform_buffer",
                   size |-> uniform_buffer_size],
                  [binding |-> 1,
                   buffer |-> IF m = DepthBufferMode_Default
                              THEN "camera_matrix_buffer"
                              ELSE "camera_matrix_reversed_depth_buffer",
                   size |-> SizeofMat4] >>]

\* Element sizes of the arrays the examples upload.
SizeofUint16 == 2
SizeofUint32 == 4
SizeofVertexT == (3 + 2 + 3) * SizeofFloat    \* vec3 pos, vec2 uv, vec3 normal
SizeofParticleT == (2 + 2 + 4) * SizeofFloat  \* vec2 pos, vec2 vel, vec4 gradient_pos

\* The source array (its byte size) and the size argument of the
\* wgpu_create_buffer_from_data call that function fn makes for slot.
buffer_from_data(fn, slot) ==
  CASE fn = "prepare_vertex_buffer" ->
         [array |-> "geometry_vertex_array",
          array_bytes |-> ((4 + 4) * 6 * 2) * SizeofFloat,
          size |-> ((4 + 4) * 6 * 2) * SizeofFloat]
    [] fn = "generate_quad" /\ slot = "vertices.buffer" ->
         [array |-> "vertices_data",
          array_bytes |-> 4 * SizeofVertexT,
          size |-> 4 * SizeofVertexT]
    [] fn = "generate_quad" /\ slot = "indices.buffer" ->
         [array |-> "index_buffer",
          array_bytes |-> 6 * SizeofUint16,
          size |-> 6 * SizeofUint32]
    [] fn = "prepare_storage_buffers" ->
         [array |-> "particle_buffer",
          array_bytes |-> PARTICLE_COUNT * SizeofParticleT,
          size |-> PARTICLE_COUNT * SizeofParticleT]
    [] OTHER ->
         [array |-> "ubo_vs", array_bytes |-> SizeofUboVs, size |-> SizeofUboVs]

\* The descriptor a create step passes, when it is one of those pipelines or
\* one of the uniform bind groups, or the upload of a create-from-data call.
CreateDescriptor(s) ==
  IF \E f \in PipelineFamilies : \E m \in {0, 1} : s.slots = <<f[m]>>
  THEN <<render_pipeline_descriptor(
           s.fn, IF \E f \in PipelineFamilies : s.slots = <<f[1]>> THEN 1 ELSE 0)>>
  ELSE IF \E m \in {0, 1} : s.slots = <<uniform_bind_groups[m]>>
  THEN <<uniform_bind_group_descriptor(
           IF s.slots = <<uniform_bind_groups[1]>> THEN 1 ELSE 0)>>
  ELSE IF s.call = "wgpu_create_buffer_from_data"
  THEN <<buffer_from_data(s.fn, s.slots[1])>>
  ELSE <<>>

(* ---------------------- running example_initialize --------------------- *)
\* The slots of a create call receive its result: NULL when the call failed,
\* otherwise new handles base+1, base+2, ... (a texture_t is three handles).
RECURSIVE StoreResult(_, _, _, _)
StoreResult(h, slots, base, failed) ==
  IF slots = <<>> THEN h
  ELSE StoreResult([h EXCEPT ![Head(slots)] = IF failed THEN NULL ELSE base + 1],
                   Tail(slots), base + 1, failed)

\* One step of example_initialize on the state st; step number fail (0: none)
\* is the create call that fails and returns NULL; assert_aborts tells whether
\* a failed ASSERT ends the process (it does unless the build strips it).
ExecStep(e, s, i, st, fail, assert_aborts) ==
  LET failed == (i = fail)
      entry == [fn |-> s.fn, call |-> s.call, slots |-> s.slots,
                desc |-> CreateDescriptor(s),
                reads |-> [r \in s.reads |-> st.handles[r]],
                result |-> [k \in DOMAIN s.slots |->
                              IF s.kind = "create" /\ ~failed
                              THEN st.next_handle + k ELSE NULL]]
      logged == [st EXCEPT !.init_log = Append(@, entry)]
  IN CASE s.kind = "create" ->
            [logged EXCEPT
               !.handles = StoreResult(@, s.slots,
                                       IF failed THEN 0 ELSE st.next_handle, failed),
               !.next_handle = IF failed THEN @ ELSE @ + Len(s.slots),
               !.aborted = failed /\ s.asserted /\ assert_aborts]
       [] s.kind = "assign" ->
            [logged EXCEPT !.handles[s.slots[1]] = SizeofUboVs]
       [] s.kind = "shader_release" ->
            [logged EXCEPT !.release_log = Append(@, st.handles[s.slots[1]])]
       [] s.kind = "write" ->
            [logged EXCEPT
               !.queue_log = Append(@, QWrite(s.slots[1]))]
       [] s.kind = "desc" ->
            [logged EXCEPT !.descs = PrepareDescriptors(e, s.fn, @, st.handles)]

RECURSIVE RunSteps(_, _, _, _, _, _)
RunSteps(e, steps, i, st, fail, assert_aborts) ==
  IF i > Len(steps) \/ st.aborted THEN st
  ELSE RunSteps(e, steps, i + 1,
                ExecStep(e, steps[i], i, st, fail, assert_aborts),
                fail, assert_aborts)

(* ------------------------------ state ---------------------------------- *)
(* ------------------------------ matrices ------------------------------- *)
\* A mat4 is column-major, as in cglm: M[c][r] is column c, row r (from 1).
Mat4Index == 1 .. 4

GLM_MAT4_IDENTITY_INIT ==
  << <<1, 0, 0, 0>>, <<0, 1, 0, 0>>, <<0, 0, 1, 0>>, <<0, 0, 0, 1>> >>

\* Faulty variant of depth_range_remap_matrix: the initialiser read row by row.
depth_range_remap_matrix_RowMajor ==
  << <<1, 0, 0, 0>>, <<0, 1, 0, 0>>, <<0, 0, -1, 1>>, <<0, 0, 0, 1>> >>

\* Each inner brace of the initialiser is one column.
depth_range_remap_matrix ==
  << <<1, 0, 0, 0>>, <<0, 1, 0, 0>>, <<0, 0, -1, 0>>, <<0, 0, 1, 1>> >>

\* dest = m1 * m2: dest[c][r] is row r of m1 times column c of m2.
glm_mat4_mul(m1, m2) ==
  [c \in Mat4Index |->
     [r \in Mat4Index |->
        m1[1][r] * m2[c][1] + m1[2][r] * m2[c][2]
          + m1[3][r] * m2[c][3] + m1[4][r] * m2[c][4]]]

VARIABLES
  example,              \* the example this process runs
  phase,                \* "uninit", "initialized" or "aborted"
  prepared,             \* static bool prepared
  paused,               \* context->paused
  current_render_mode,  \* reversed_z: static render_mode_enum
  attach_to_cursor,     \* compute_particles: static bool
  handles,              \* value of every handle slot of module state (0: NULL)
  next_handle,          \* number of handles the device has created
  descs,                \* the render-pass descriptor objects
  submit_info,          \* wgpu_context->submit_info
  mvp_matrices_data,    \* reversed_z: frame whose timestamp the block holds
  init_log,             \* calls made by example_initialize
  init_fail,            \* step of example_initialize that failed (0: none)
  queue_log,            \* timeline of the device queue
  release_log,          \* handles passed to a release call, in order
  frame_log,            \* API calls of the last example_render
  frame_passes,         \* passes recorded by the last example_render
  frame_mode,           \* current_render_mode when the last frame started
  frame_view,           \* swap-chain view of the last frame (0: none)
  frames,               \* example_render calls that drew
  destroys,             \* example_destroy calls
  init_context,         \* last argument of example_initialize: "none", "NULL", "context"
  descs_at_init,        \* the descriptor objects as example_initialize left them
  init_ret,             \* last result of example_initialize (-1: never called)
  render_ret,           \* last result of example_render (-1: never called)
  submit_failed,        \* the queue submission of the last frame failed
  last_call,            \* the entry point that ran last
  uniform_update,       \* reversed_z: <<the last update_uniform_buffers>> (<<>>: none)
  lookup_name,          \* last argument of get_example_by_name
  lookup_result,        \* its result: position of the entry (0: NULL, -1: not called)
  lookup_count,         \* last result of get_number_of_examples (-1: not called)
  view_projection_matrix,                 \* init_uniform_buffers: local mat4
  reversed_range_view_projection_matrix,  \* init_uniform_buffers: local mat4
  remapped,             \* the reversed-range matrix has been computed
  vp_edits              \* entries of view_projection_matrix set so far

vars == <<example, phase, prepared, paused, current_render_mode,
          attach_to_cursor, handles, next_handle, descs, submit_info,
          mvp_matrices_data, init_log, init_fail, queue_log, release_log,
          frame_log, frame_passes, frame_mode, frame_view, frames, destroys,
          init_context, descs_at_init, init_ret, render_ret, submit_failed,
          last_call, uniform_update, lookup_name, lookup_result, lookup_count,
          view_projection_matrix, reversed_range_view_projection_matrix,
          remapped, vp_edits>>

\* The matrices of init_uniform_buffers, which no entry point touches.
remap_vars ==
  <<view_projection_matrix, reversed_range_view_projection_matrix, remapped,
    vp_edits>>

Init ==
  /\ example \in Examples
  /\ phase = "uninit"
  /\ prepared = FALSE
  /\ paused = FALSE
  /\ current_render_mode = RenderMode_Color
  /\ attach_to_cursor = FALSE
  /\ handles = [n \in AllSlots |-> NULL]
  /\ next_handle = 0
  /\ descs = ZeroDescs
  /\ submit_info = [command_buffer_count |-> 0, command_buffers |-> <<>>]
  /\ mvp_matrices_data = 0
  /\ init_log = <<>>
  /\ init_fail = 0
  /\ queue_log = <<>>
  /\ submit_failed = FALSE
  /\ uniform_update = <<>>
  /\ lookup_name = ""
  /\ lookup_result = -1
  /\ lookup_count = -1
  /\ view_projection_matrix = GLM_MAT4_IDENTITY_INIT
  /\ reversed_range_view_projection_matrix = GLM_MAT4_IDENTITY_INIT
  /\ remapped = FALSE
  /\ vp_edits = 0
  /\ release_log = <<>>
  /\ frame_log = <<>>
  /\ frame_passes = <<>>
  /\ frame_mode = RenderMode_Color
  /\ frame_view = 0
  /\ frames = 0
  /\ destroys = 0
  /\ init_context = "none"
  /\ descs_at_init = ZeroDescs
  /\ init_ret = -1
  /\ render_ret = -1
  /\ last_call = "none"

(* -------------------------- example_initialize ------------------------- *)
\* example_initialize(context) with a non-NULL context: runs every step, sets
\* prepared and returns 0.  No step's result is inspected except by ASSERT.
example_initialize(fail, assert_aborts) ==
  LET st0 == [handles |-> handles, next_handle |-> next_handle,
              descs |-> descs, queue_log |-> queue_log,
              init_log |-> init_log, release_log |-> release_log,
              aborted |-> FALSE]
  IN \E st \in {RunSteps(example, InitSteps(example), 1, st0, fail, assert_aborts)} :
     /\ handles' = st.handles
     /\ next_handle' = st.next_handle
     /\ descs' = st.descs
     /\ queue_log' = st.queue_log
     /\ init_log' = st.init_log
     /\ release_log' = st.release_log
     /\ init_fail' = fail
     /\ descs_at_init' = st.descs
     /\ IF st.aborted
        THEN /\ phase' = "aborted"
             /\ UNCHANGED <<prepared, init_ret>>
        ELSE /\ phase' = "initialized"
             /\ prepared' = TRUE
             /\ init_ret' = 0

Initialize ==
  /\ phase = "uninit"
  /\ \E fail \in {0} \cup CreateSteps(example), assert_aborts \in BOOLEAN :
       example_initialize(fail, assert_aborts)
  /\ init_context' = "context"
  /\ last_call' = "example_initialize"
  /\ UNCHANGED <<example, remap_vars, uniform_update, lookup_name, lookup_result, lookup_count, submit_failed, paused, current_render_mode, attach_to_cursor,
                 submit_info, mvp_matrices_data, frame_log, frame_passes,
                 frame_mode, frame_view, frames, destroys, render_ret>>

\* Faulty variant of InitializeNull: prepared = true placed after the if (context) block.
InitializeNull_SetsPrepared ==
  /\ phase = "uninit"
  /\ init_ret' = 1
  /\ prepared' = TRUE
  /\ init_context' = "NULL"
  /\ last_call' = "example_initialize"
  /\ UNCHANGED <<example, remap_vars, uniform_update, lookup_name, lookup_result, lookup_count, submit_failed, phase, paused, current_render_mode,
                 attach_to_cursor, handles, next_handle, descs, submit_info,
                 mvp_matrices_data, init_log, init_fail, queue_log,
                 release_log, frame_log, frame_passes, frame_mode, frame_view,
                 frames, destroys, descs_at_init, render_ret>>

\* example_initialize(NULL): the if (context) branch is skipped.
InitializeNull ==
  /\ phase = "uninit"
  /\ init_ret' = 1
  /\ init_context' = "NULL"
  /\ last_call' = "example_initialize"
  /\ UNCHANGED <<example, remap_vars, uniform_update, lookup_name, lookup_result, lookup_count, submit_failed, phase, prepared, paused, current_render_mode,
                 attach_to_cursor, handles, next_handle, descs, submit_info,
                 mvp_matrices_data, init_log, init_fail, queue_log,
                 release_log, frame_log, frame_passes, frame_mode, frame_view,
                 frames, destroys, descs_at_init, render_ret>>

(* --------------------------- recording a frame ------------------------- *)
\* A recorded pass: the descriptor contents read when the pass begins and
\* the objects bound before it ends.
Pass(kind, m, desc_ptr, desc, pipeline_slot, bind_group_slots, vertex_slot, viewport, draw, h) ==
  [kind |-> kind, m |-> m, desc_ptr |-> desc_ptr, desc |-> desc,
   pipeline_slot |-> pipeline_slot, pipeline |-> h[pipeline_slot],
   bind_group_slots |-> bind_group_slots,
   bind_groups |-> [k \in DOMAIN bind_group_slots |-> h[bind_group_slots[k]]],
   vertex_slot |-> vertex_slot,
   vertex_buffer |-> IF vertex_slot = "" THEN NULL ELSE h[vertex_slot],
   viewport |-> viewport, draw |-> draw]

\* Faulty variant of RecordPass: the pass encoder is released without being ended.
RecordPass_NoEnd(fs, begin_op, p) ==
  LET i == Len(fs.passes) + 1
  IN [fs EXCEPT !.passes = Append(@, p),
                !.log = @ \o << Ev(begin_op, i, ""),
                                Ev("ReleasePassEncoder", i, "") >>]

\* Begin, record, end and release one pass on the frame state fs.
RecordPass(fs, begin_op, p) ==
  LET i == Len(fs.passes) + 1
  IN [fs EXCEPT !.passes = Append(@, p),
                !.log = @ \o << Ev(begin_op, i, ""), Ev("EndPass", i, ""),
                                Ev("ReleasePassEncoder", i, "") >>]

\* Faulty variant of Viewport: both variants draw into the left half.
Viewport_NoOffset(m) == <<0, 0, viewport_width, default_canvas_height>>

\* The viewport <<x, y, width, height>> every pass of variant m sets.
Viewport(m) == <<viewport_width * m, 0, viewport_width, default_canvas_height>>

\* Faulty variant of color_pass: pipeline and bind group of variant 0 for both variants.
color_pass_Index0(fs, m, attachment, h) ==
  LET d == [fs.descs EXCEPT
              !.dpd_rp_color_att_descriptors[m].view = attachment,
              !.dpd_rp_ds_att_descriptors[m].depthLoadOp =
                 TruncToInt(depth_load_values[m])]
  IN RecordPass([fs EXCEPT !.descs = d], "BeginRenderPass",
       Pass("color", m, <<"draw_pass_descriptors", m>>,
            Snapshot(d, d.draw_pass_descriptors[m]),
            color_pass_pipelines[0], <<uniform_bind_groups[0]>>,
            "vertices.buffer", Viewport(m),
            <<geometry_draw_count, num_instances>>, h))

\* reversed_z, RenderMode_Color loop body.
color_pass(fs, m, attachment, h) ==
  LET d == [fs.descs EXCEPT
              !.dpd_rp_color_att_descriptors[m].view = attachment,
              !.dpd_rp_ds_att_descriptors[m].depthLoadOp =
                 TruncToInt(depth_load_values[m])]
  IN RecordPass([fs EXCEPT !.descs = d], "BeginRenderPass",
       Pass("color", m, <<"draw_pass_descriptors", m>>,
            Snapshot(d, d.draw_pass_descriptors[m]),
            color_pass_pipelines[m], <<uniform_bind_groups[m]>>,
            "vertices.buffer", Viewport(m),
            <<geometry_draw_count, num_instances>>, h))

\* reversed_z, the depthPrePass block of the two pre-pass modes.
depth_pre_pass(fs, m, h) ==
  LET d == [fs.descs EXCEPT
              !.dppd_rp_ds_att_descriptor.depthLoadOp =
                 TruncToInt(depth_load_values[m])]
  IN RecordPass([fs EXCEPT !.descs = d], "BeginRenderPass",
       Pass("depth_pre_pass", m, <<"depth_pre_pass_descriptor">>,
            Snapshot(d, d.depth_pre_pass_descriptor),
            depth_pre_pass_pipelines[m], <<uniform_bind_groups[m]>>,
            "vertices.buffer", Viewport(m),
            <<geometry_draw_count, num_instances>>, h))

\* Faulty variant of precision_error_pass: the depth load op of the draw pass is not
\* written, the pass reads what the descriptor holds.
precision_error_pass_KeepsLoadOp(fs, m, attachment, h) ==
  LET d == [fs.descs EXCEPT
              !.dpd_rp_color_att_descriptors[m].view = attachment]
  IN RecordPass([fs EXCEPT !.descs = d], "BeginRenderPass",
       Pass("precision_error_pass", m, <<"draw_pass_descriptors", m>>,
            Snapshot(d, d.draw_pass_descriptors[m]),
            precision_pass_pipelines[m],
            <<uniform_bind_groups[m], "depth_texture_bind_group">>,
            "vertices.buffer", Viewport(m),
            <<geometry_draw_count, num_instances>>, h))

\* reversed_z, the precisionErrorPass block.
precision_error_pass(fs, m, attachment, h) ==
  LET d == [fs.descs EXCEPT
              !.dpd_rp_color_att_descriptors[m].view = attachment,
              !.dpd_rp_ds_att_descriptors[m].depthLoadOp =
                 TruncToInt(depth_load_values[m])]
  IN RecordPass([fs EXCEPT !.descs = d], "BeginRenderPass",
       Pass("precision_error_pass", m, <<"draw_pass_descriptors", m>>,
            Snapshot(d, d.draw_pass_descriptors[m]),
            precision_pass_pipelines[m],
            <<uniform_bind_groups[m], "depth_texture_bind_group">>,
            "vertices.buffer", Viewport(m),
            <<geometry_draw_count, num_instances>>, h))

\* reversed_z, the depthTextureQuadPass block.
depth_texture_quad_pass(fs, m, attachment, h) ==
  LET d == [fs.descs EXCEPT
              !.tqd_rp_color_att_descriptors[m].view = attachment]
  IN RecordPass([fs EXCEPT !.descs = d], "BeginRenderPass",
       Pass("depth_texture_quad_pass", m, <<"texture_quad_pass_descriptors", m>>,
            Snapshot(d, d.texture_quad_pass_descriptors[m]),
            "texture_quad_pass_pipeline", <<"depth_texture_bind_group">>,
            "", Viewport(m), <<6, 1>>, h))

\* Faulty variant of reversed_z_loop_body: the pre-pass block placed after the block
\* that samples the depth texture.
reversed_z_loop_body_PrePassLast(fs, mode, m, attachment, h) ==
  IF mode = RenderMode_Color
  THEN color_pass(fs, m, attachment, h)
  ELSE IF mode = RenderMode_Precision_Error
  THEN depth_pre_pass(precision_error_pass(fs, m, attachment, h), m, h)
  ELSE depth_pre_pass(depth_texture_quad_pass(fs, m, attachment, h), m, h)

\* One iteration of the for (m ...) loop of the branch chosen by mode.
reversed_z_loop_body(fs, mode, m, attachment, h) ==
  IF mode = RenderMode_Color
  THEN color_pass(fs, m, attachment, h)
  ELSE IF mode = RenderMode_Precision_Error
  THEN precision_error_pass(depth_pre_pass(fs, m, h), m, attachment, h)
  ELSE depth_texture_quad_pass(depth_pre_pass(fs, m, h), m, attachment, h)

RECURSIVE reversed_z_loop(_, _, _, _, _)
reversed_z_loop(fs, mode, m, attachment, h) ==
  IF m >= Len(depth_buffer_modes) THEN fs
  ELSE reversed_z_loop(reversed_z_loop_body(fs, mode, m, attachment, h),
                       mode, m + 1, attachment, h)

NoDesc == [colorAttachmentCount |-> 0, color |-> <<>>, ds |-> <<>>]

\* textured_quad: the single render pass.
textured_quad_passes(fs, attachment, h) ==
  LET d == [fs.descs EXCEPT !.rp_color_att_descriptors[0].view = attachment]
  IN RecordPass([fs EXCEPT !.descs = d], "BeginRenderPass",
       Pass("render", 0, <<"render_pass_desc">>,
            Snapshot(d, d.render_pass_desc), "pipeline", <<"bind_group">>,
            "vertices.buffer", <<>>, <<6, 1>>, h))

\* Faulty variant of compute_particles_passes: the render pass is recorded
\* before the compute pass.
compute_particles_passes_RenderFirst(fs, attachment, h) ==
  LET d == [fs.descs EXCEPT !.rp_color_att_descriptors[0].view = attachment]
      r == RecordPass([fs EXCEPT !.descs = d], "BeginRenderPass",
             Pass("render", 0, <<"render_pass_desc">>,
                  Snapshot(d, d.render_pass_desc), "graphics.pipeline",
                  <<"graphics.bind_group">>, "compute.storage_buffer", <<>>,
                  <<PARTICLE_COUNT, 1>>, h))
  IN RecordPass(r, "BeginComputePass",
       Pass("compute", 0, NullPtr, NoDesc, "compute.pipeline",
            <<"compute.bind_group">>, "", <<>>,
            <<PARTICLE_COUNT \div 256, 1>>, h))

\* compute_particles: the compute pass, then the render pass.
compute_particles_passes(fs, attachment, h) ==
  LET d == [fs.descs EXCEPT !.rp_color_att_descriptors[0].view = attachment]
      c == RecordPass([fs EXCEPT !.descs = d], "BeginComputePass",
             Pass("compute", 0, NullPtr, NoDesc, "compute.pipeline",
                  <<"compute.bind_group">>, "", <<>>,
                  <<PARTICLE_COUNT \div 256, 1>>, h))
  IN RecordPass(c, "BeginRenderPass",
       Pass("render", 0, <<"render_pass_desc">>,
            Snapshot(d, d.render_pass_desc), "graphics.pipeline",
            <<"graphics.bind_group">>, "compute.storage_buffer", <<>>,
            <<PARTICLE_COUNT, 1>>, h))

\* Buffer writes the overlay callback makes while draw_ui runs: only
\* textured_quad's callback writes (when the LOD slider moved).
OverlayWrites(e, ui_flag) ==
  IF e = "textured_quad" /\ ui_flag THEN <<"uniform_buffer_vs.buffer">> ELSE <<>>

\* Faulty variant of build_command_buffer: the command encoder is released
\* before the command buffer is obtained from it.
build_command_buffer_ReleaseFirst(e, d, h, mode, attachment, ui_flag) ==
  LET fs0 == [descs |-> d, passes |-> <<>>,
              log |-> << Ev("CreateCommandEncoder", 0, "") >>]
      fs == CASE e = "reversed_z" -> reversed_z_loop(fs0, mode, 0, attachment, h)
              [] e = "textured_quad" -> textured_quad_passes(fs0, attachment, h)
              [] e = "compute_particles" ->
                   compute_particles_passes(fs0, attachment, h)
      w == OverlayWrites(e, ui_flag)
  IN [descs |-> fs.descs,
      command_buffer |-> fs.passes,
      writes |-> w,
      log |-> fs.log \o << Ev("draw_ui", 0, "") >>
              \o [k \in DOMAIN w |-> Ev("WriteBuffer", 0, w[k])]
              \o << Ev("ReleaseCommandEncoder", 0, ""),
                    Ev("GetCommandBuffer", 0, "") >>]

\* build_command_buffer: encoder, the passes of the example, the overlay,
\* then the command buffer (the recorded passes) and the encoder's release.
build_command_buffer(e, d, h, mode, attachment, ui_flag) ==
  LET fs0 == [descs |-> d, passes |-> <<>>,
              log |-> << Ev("CreateCommandEncoder", 0, "") >>]
      fs == CASE e = "reversed_z" -> reversed_z_loop(fs0, mode, 0, attachment, h)
              [] e = "textured_quad" -> textured_quad_passes(fs0, attachment, h)
              [] e = "compute_particles" ->
                   compute_particles_passes(fs0, attachment, h)
      w == OverlayWrites(e, ui_flag)
  IN [descs |-> fs.descs,
      command_buffer |-> fs.passes,
      writes |-> w,
      log |-> fs.log \o << Ev("draw_ui", 0, "") >>
              \o [k \in DOMAIN w |-> Ev("WriteBuffer", 0, w[k])]
              \o << Ev("GetCommandBuffer", 0, ""),
                    Ev("ReleaseCommandEncoder", 0, "") >>]

\* submit_command_buffers: one queue submission of the command buffers that
\* submit_info lists.
submit_command_buffers(si) ==
  QSubmit(SubSeq(si.command_buffers, 1, si.command_buffer_count))

\* update_transformation_matrix: the memcpy of each instance's matrix to
\* &mvp_matrices_data[m], as element index and byte range of the destination.
RECURSIVE update_transformation_matrix(_, _)
update_transformation_matrix(i, m) ==
  IF ~(i < num_instances) THEN <<>>
  ELSE << [instance |-> i, index |-> m, first_byte |-> m * SizeofFloat,
           size |-> SizeofMat4] >>
       \o update_transformation_matrix(i + 1, m + matrix_float_count)

\* update_uniform_buffers of reversed_z: the copies, then the buffer write.
update_uniform_buffers ==
  [copies |-> update_transformation_matrix(0, 0),
   writes |-> << [buffer |-> "uniform_buffer", offset |-> 0,
                  size |-> sizeof_mvp_matrices_data] >>]

\* Faulty variant of PostDrawWrites: reversed_z updates while paused.
PostDrawWrites_IgnoresPaused(e, paused_now) ==
  CASE e = "reversed_z" -> <<"uniform_buffer">>
    [] e = "textured_quad" -> <<>>
    [] e = "compute_particles" -> <<"compute.uniform_buffer">>

\* Faulty variant of PostDrawWrites: reversed_z rewrites the camera buffers too.
PostDrawWrites_CameraToo(e, paused_now) ==
  CASE e = "reversed_z" ->
         IF paused_now THEN <<>>
         ELSE <<"uniform_buffer", "camera_matrix_buffer",
                "camera_matrix_reversed_depth_buffer">>
    [] e = "textured_quad" -> <<>>
    [] e = "compute_particles" -> <<"compute.uniform_buffer">>

\* Buffers example_render writes after example_draw has returned.
PostDrawWrites(e, paused_now) ==
  CASE e = "reversed_z" -> IF paused_now THEN <<>> ELSE <<"uniform_buffer">>
    [] e = "textured_quad" -> <<>>
    [] e = "compute_particles" -> <<"compute.uniform_buffer">>

(* ----------------------------- example_render -------------------------- *)
\* example_render while prepared is false: return 1.
RenderUnprepared ==
  /\ phase # "aborted"
  /\ ~prepared
  /\ render_ret' = 1
  /\ last_call' = "example_render"
  /\ UNCHANGED <<example, remap_vars, uniform_update, lookup_name, lookup_result, lookup_count, submit_failed, phase, prepared, paused, current_render_mode,
                 attach_to_cursor, handles, next_handle, descs, submit_info,
                 mvp_matrices_data, init_log, init_fail, queue_log,
                 release_log, frame_log, frame_passes, frame_mode, frame_view,
                 frames, destroys, init_context, descs_at_init, init_ret>>

\* Faulty variant of example_render: the overlay runs before the passes are recorded, so
\* the frame is built with the mode just selected.
example_render_NewMode(view, ui_flag, item_index) ==
  \E b \in {build_command_buffer(example, descs, handles, item_index,
                                 view, ui_flag)} :
  LET si == [command_buffer_count |-> 1, command_buffers |-> <<b.command_buffer>>]
      paused_now == IF example = "reversed_z" THEN ui_flag ELSE paused
      post == PostDrawWrites(example, paused_now)
  IN /\ descs' = b.descs
     /\ submit_info' = si
     /\ paused' = paused_now
     /\ current_render_mode' =
          IF example = "reversed_z" THEN item_index ELSE current_render_mode
     /\ attach_to_cursor' =
          IF example = "compute_particles" THEN ui_flag ELSE attach_to_cursor
     /\ queue_log' = queue_log
                     \o [k \in DOMAIN b.writes |-> QWrite(b.writes[k])]
                     \o << submit_command_buffers(si) >>
                     \o [k \in DOMAIN post |-> QWrite(post[k])]
     /\ frame_log' = << Ev("prepare_frame", 0, "") >> \o b.log
                     \o << Ev("Submit", 0, ""), Ev("submit_frame", 0, "") >>
                     \o [k \in DOMAIN post |-> Ev("WriteBuffer", 0, post[k])]
     /\ frame_passes' = b.command_buffer
     /\ frame_mode' = current_render_mode
     /\ frame_view' = view
     /\ frames' = frames + 1
     /\ mvp_matrices_data' =
          IF example = "reversed_z" /\ ~paused_now THEN frames + 1
          ELSE mvp_matrices_data
     /\ uniform_update' =
          IF example = "reversed_z" /\ ~paused_now THEN <<update_uniform_buffers>>
          ELSE uniform_update
     /\ render_ret' = 0

\* example_render while prepared: example_draw (prepare_frame hands out the
\* swap-chain view; the overlay callback runs inside build_command_buffer
\* with the user's input ui_flag / item_index), then the uniform update.
example_render(view, ui_flag, item_index) ==
  \E b \in {build_command_buffer(example, descs, handles, current_render_mode,
                                 view, ui_flag)} :
  LET si == [command_buffer_count |-> 1, command_buffers |-> <<b.command_buffer>>]
      paused_now == IF example = "reversed_z" THEN ui_flag ELSE paused
      post == PostDrawWrites(example, paused_now)
  IN /\ descs' = b.descs
     /\ submit_info' = si
     /\ paused' = paused_now
     /\ current_render_mode' =
          IF example = "reversed_z" THEN item_index ELSE current_render_mode
     /\ attach_to_cursor' =
          IF example = "compute_particles" THEN ui_flag ELSE attach_to_cursor
     /\ queue_log' = queue_log
                     \o [k \in DOMAIN b.writes |-> QWrite(b.writes[k])]
                     \o << submit_command_buffers(si) >>
                     \o [k \in DOMAIN post |-> QWrite(post[k])]
     /\ frame_log' = << Ev("prepare_frame", 0, "") >> \o b.log
                     \o << Ev("Submit", 0, ""), Ev("submit_frame", 0, "") >>
                     \o [k \in DOMAIN post |-> Ev("WriteBuffer", 0, post[k])]
     /\ frame_passes' = b.command_buffer
     /\ frame_mode' = current_render_mode
     /\ frame_view' = view
     /\ frames' = frames + 1
     /\ mvp_matrices_data' =
          IF example = "reversed_z" /\ ~paused_now THEN frames + 1
          ELSE mvp_matrices_data
     /\ uniform_update' =
          IF example = "reversed_z" /\ ~paused_now THEN <<update_uniform_buffers>>
          ELSE uniform_update
     /\ render_ret' = 0

\* Frames the model follows: fewer once a create call of initialize failed.
FrameBudget == IF init_fail = 0 THEN MaxFrames ELSE MaxFailFrames

\* A drawing example_render, with the inputs of the frame: the swap-chain
\* view, what the user does in the overlay, and whether the device reports
\* the frame's queue submission as failed.
\* Whether the queue submission of a frame can fail: one fault is injected
\* per behaviour, a failed create call or failed submissions.
SubmitOutcomes == IF init_fail = 0 THEN BOOLEAN ELSE {FALSE}

RenderPrepared ==
  /\ phase # "aborted"
  /\ prepared
  /\ frames < FrameBudget
  /\ \E view \in 1..NumViews, ui_flag \in BOOLEAN, item_index \in RenderModes :
       example_render(view, ui_flag, item_index)
  /\ \E failed \in SubmitOutcomes : submit_failed' = failed
  /\ last_call' = "example_render"
  /\ UNCHANGED <<example, remap_vars, lookup_name, lookup_result, lookup_count, phase, prepared, handles, next_handle, init_log,
                 init_fail, release_log, destroys, init_context,
                 descs_at_init, init_ret>>

(* ----------------------------- example_destroy ------------------------- *)
Rel(slot) == [fn |-> "WGPU_RELEASE_RESOURCE", slot |-> slot]
\* wgpu_destroy_texture(&t): releases the three handles of a texture_t.
wgpu_destroy_texture(t) ==
  CASE t = "depth_texture" ->
         <<Rel("depth_texture.view"), Rel("depth_texture.texture"),
           Rel("depth_texture.sampler")>>
    [] t = "default_depth_texture" ->
         <<Rel("default_depth_texture.view"), Rel("default_depth_texture.texture"),
           Rel("default_depth_texture.sampler")>>
    [] t = "texture" ->
         <<Rel("texture.view"), Rel("texture.texture"), Rel("texture.sampler")>>
    [] t = "textures.particle" ->
         <<Rel("textures.particle.view"), Rel("textures.particle.texture"),
           Rel("textures.particle.sampler")>>
    [] t = "textures.gradient" ->
         <<Rel("textures.gradient.view"), Rel("textures.gradient.texture"),
           Rel("textures.gradient.sampler")>>

reversed_z_example_destroy ==
  << Rel("uniform_buffer"), Rel("camera_matrix_buffer"),
     Rel("camera_matrix_reversed_depth_buffer"),
     Rel("depth_texture_bind_group_layout"), Rel("depth_texture_bind_group"),
     Rel(uniform_bind_groups[0]), Rel(uniform_bind_groups[1]) >>
  \o wgpu_destroy_texture("depth_texture")
  \o wgpu_destroy_texture("default_depth_texture")
  \o << Rel(depth_pre_pass_pipelines[0]), Rel(precision_pass_pipelines[0]),
        Rel(color_pass_pipelines[0]),
        Rel(depth_pre_pass_pipelines[1]), Rel(precision_pass_pipelines[1]),
        Rel(color_pass_pipelines[1]),
        Rel("texture_quad_pass_pipeline") >>

\* Faulty variant of textured_quad_example_destroy: vertices.buffer is released
\* by a direct wgpuBufferRelease call, which leaves the variable as it is.
textured_quad_example_destroy_DirectRelease ==
  << [fn |-> "camera_release", slot |-> "context->camera"] >>
  \o wgpu_destroy_texture("texture")
  \o << Rel("bind_group_layout"), Rel("pipeline_layout"), Rel("bind_group"),
        Rel("uniform_buffer_vs.buffer"), Rel("indices.buffer"),
        [fn |-> "wgpuBufferRelease", slot |-> "vertices.buffer"],
        Rel("pipeline") >>

textured_quad_example_destroy ==
  << [fn |-> "camera_release", slot |-> "context->camera"] >>
  \o wgpu_destroy_texture("texture")
  \o << Rel("bind_group_layout"), Rel("pipeline_layout"), Rel("bind_group"),
        Rel("uniform_buffer_vs.buffer"), Rel("indices.buffer"),
        Rel("vertices.buffer"), Rel("pipeline") >>

compute_particles_example_destroy ==
  wgpu_destroy_texture("textures.particle")
  \o wgpu_destroy_texture("textures.gradient")
  \o << Rel("graphics.bind_group_layout"), Rel("graphics.bind_group"),
        Rel("graphics.pipeline_layout"), Rel("graphics.pipeline"),
        Rel("compute.storage_buffer"), Rel("compute.uniform_buffer"),
        Rel("compute.bind_group_layout"), Rel("compute.bind_group"),
        Rel("compute.pipeline_layout"), Rel("compute.pipeline") >>

DestroySteps(e) ==
  CASE e = "reversed_z" -> reversed_z_example_destroy
    [] e = "textured_quad" -> textured_quad_example_destroy
    [] e = "compute_particles" -> compute_particles_example_destroy

\* WGPU_RELEASE_RESOURCE(Type, name): release a non-NULL handle and set the
\* variable to NULL.  camera_release(camera) gets the pointer by value: it
\* frees the object and cannot reset the caller's variable.
WGPU_RELEASE_RESOURCE(st, s) ==
  IF st.handles[s.slot] = NULL THEN st
  ELSE [handles |-> IF s.fn = "WGPU_RELEASE_RESOURCE"
                    THEN [st.handles EXCEPT ![s.slot] = NULL]
                    ELSE st.handles,
        release_log |-> Append(st.release_log, st.handles[s.slot])]

RECURSIVE RunDestroy(_, _, _)
RunDestroy(steps, i, st) ==
  IF i > Len(steps) THEN st
  ELSE RunDestroy(steps, i + 1, WGPU_RELEASE_RESOURCE(st, steps[i]))

Destroy ==
  /\ phase # "aborted"
  /\ destroys < MaxDestroys
  /\ \E st \in {RunDestroy(DestroySteps(example), 1,
                           [handles |-> handles, release_log |-> release_log])} :
        /\ handles' = st.handles
        /\ release_log' = st.release_log
  /\ destroys' = destroys + 1
  /\ last_call' = "example_destroy"
  /\ UNCHANGED <<example, remap_vars, uniform_update, lookup_name, lookup_result, lookup_count, submit_failed, phase, prepared, paused, current_render_mode,
                 attach_to_cursor, next_handle, descs, submit_info,
                 mvp_matrices_data, init_log, init_fail, queue_log, frame_log,
                 frame_passes, frame_mode, frame_view, frames, init_context,
                 descs_at_init, init_ret, render_ret>>

(* ------------------------- registry lookups ---------------------------- *)
\* The variables of the running example, which a registry lookup leaves alone.
example_vars ==
  <<example, phase, prepared, paused, current_render_mode, attach_to_cursor,
    handles, next_handle, descs, submit_info, mvp_matrices_data, init_log,
    init_fail, queue_log, release_log, frame_log, frame_passes, frame_mode,
    frame_view, frames, destroys, init_context, descs_at_init, init_ret,
    render_ret, submit_failed, last_call, uniform_update>>

\* Strings passed to get_example_by_name: every registered name, every
\* registered name with a suffix, strings that are no name at all, and the
\* name of every declared example.
LookupArguments ==
  Range(g_example_cases)
    \cup {g_example_cases[i] \o "_2" : i \in DOMAIN g_example_cases}
    \cup {"", "not-a-real-example", "Triangle", "example_triangle"}
    \cup Range(example_declarations)

GetExampleByName ==
  /\ \E example_name \in LookupArguments :
       /\ lookup_name' = example_name
       /\ lookup_result' = get_example_by_name(example_name)
  /\ UNCHANGED <<example_vars, remap_vars, lookup_count>>

GetNumberOfExamples ==
  /\ lookup_count' = get_number_of_examples
  /\ UNCHANGED <<example_vars, remap_vars, lookup_name, lookup_result>>

RegistryNext ==
  \/ GetExampleByName
  \/ GetNumberOfExamples

RegistrySpec == Init /\ [][RegistryNext]_vars

(* ---------------------- reversed-range matrix -------------------------- *)
\* One entry of view_projection_matrix takes a value of the bounded range.
SetViewProjectionEntry ==
  /\ ~remapped
  /\ vp_edits < MaxEdits
  /\ \E c \in Mat4Index, r \in Mat4Index, v \in (0 - MaxEntry) .. MaxEntry :
       /\ v # view_projection_matrix[c][r]
       /\ view_projection_matrix' = [view_projection_matrix EXCEPT ![c][r] = v]
  /\ vp_edits' = vp_edits + 1
  /\ UNCHANGED <<example_vars, lookup_name, lookup_result, lookup_count,
                 reversed_range_view_projection_matrix, remapped>>

\* glm_mat4_mul(depth_range_remap_matrix, view_projection_matrix, dest).
RemapViewProjection ==
  /\ ~remapped
  /\ reversed_range_view_projection_matrix' =
       glm_mat4_mul(depth_range_remap_matrix, view_projection_matrix)
  /\ remapped' = TRUE
  /\ UNCHANGED <<example_vars, lookup_name, lookup_result, lookup_count,
                 view_projection_matrix, vp_edits>>

RemapNext ==
  \/ SetViewProjectionEntry
  \/ RemapViewProjection

RemapSpec == Init /\ [][RemapNext]_vars

Next ==
  \/ Initialize
  \/ InitializeNull
  \/ RenderUnprepared
  \/ RenderPrepared
  \/ Destroy

Spec == Init /\ [][Next]_vars

TypeOK ==
  /\ example \in Examples
  /\ phase \in {"uninit", "initialized", "aborted"}
  /\ prepared \in BOOLEAN
  /\ frames \in 0..MaxFrames

(* ======================= properties of the examples ==================== *)
\* Positions of the calls named op in a frame's log.
Calls(log, op) == {i \in DOMAIN log : log[i].op = op}
BeginOps == {"BeginRenderPass", "BeginComputePass"}
Begins(log) == {i \in DOMAIN log : log[i].op \in BeginOps}
Submissions(q) == {i \in DOMAIN q : q[i].op = "submit"}

\* C1: example_render records and submits only after example_initialize has
\* returned 0; while prepared is false it returns 1 and records no pass,
\* submits nothing and writes no buffer; example_initialize(NULL) returns 1
\* and leaves prepared false.
C1_DrawnOnlyIfInitialized ==
  (frames > 0 \/ frame_log # <<>> \/ frame_passes # <<>>
     \/ Submissions(queue_log) # {})
  => (init_ret = 0 /\ prepared)
C1_UnpreparedRenderStep ==
  (last_call' = "example_render" /\ ~prepared)
  => /\ render_ret' = 1
     /\ UNCHANGED <<queue_log, frame_log, frame_passes, submit_info, descs,
                    frames, prepared>>
C1_NullInitializeStep ==
  (last_call' = "example_initialize" /\ init_context' = "NULL")
  => (init_ret' = 1 /\ prepared' = prepared /\ ~prepared')
C1_RenderRequiresInitialize ==
  /\ []C1_DrawnOnlyIfInitialized
  /\ [][C1_UnpreparedRenderStep /\ C1_NullInitializeStep]_vars
\* example_render was called after example_initialize(NULL) and returned 1.
C1_Witness ==
  /\ last_call = "example_render" /\ render_ret = 1
  /\ init_context = "NULL" /\ init_ret = 1 /\ ~prepared

\* C2: every prepared example_render creates one command encoder, obtains one
\* command buffer from it, sets command_buffer_count to 1 and submits once,
\* after every pass of the frame has been ended.
C2_OneSubmissionPerFrame ==
  frames > 0 =>
    /\ Cardinality(Calls(frame_log, "CreateCommandEncoder")) = 1
    /\ Cardinality(Calls(frame_log, "GetCommandBuffer")) = 1
    /\ Cardinality(Calls(frame_log, "Submit")) = 1
    /\ submit_info.command_buffer_count = 1
    /\ Len(submit_info.command_buffers) = 1
    /\ submit_info.command_buffers[1] = frame_passes
    /\ Cardinality(Begins(frame_log)) = Len(frame_passes)
    /\ \A i \in Begins(frame_log) :
         \E j \in Calls(frame_log, "EndPass") :
           /\ frame_log[j].idx = frame_log[i].idx
           /\ i < j
           /\ \A k \in Calls(frame_log, "Submit") : j < k
    /\ \A c \in Calls(frame_log, "CreateCommandEncoder"),
          g \in Calls(frame_log, "GetCommandBuffer"),
          k \in Calls(frame_log, "Submit") : c < g /\ g < k
\* A reversed_z frame of four passes has been recorded and submitted.
C2_Witness ==
  /\ example = "reversed_z" /\ frames > 0 /\ last_call = "example_render"
  /\ Len(frame_passes) = 4 /\ render_ret = 0

\* C3: in a reversed_z frame the passes of variant 0 all precede the passes of
\* variant 1, and each depth pre-pass is immediately followed by the pass of
\* the same variant that samples depth_texture, so that no other pass writing
\* depth_texture lies between a pre-pass and its consumer.
SamplesDepthTexture(p) ==
  \E k \in DOMAIN p.bind_group_slots :
    p.bind_group_slots[k] = "depth_texture_bind_group"
WritesDepthTexture(p) == p.desc_ptr = <<"depth_pre_pass_descriptor">>
C3_PassOrder ==
  (example = "reversed_z" /\ frames > 0) =>
    /\ \A i, j \in DOMAIN frame_passes :
         i < j => frame_passes[i].m <= frame_passes[j].m
    /\ \A i \in DOMAIN frame_passes :
         WritesDepthTexture(frame_passes[i]) =>
           /\ i + 1 \in DOMAIN frame_passes
           /\ SamplesDepthTexture(frame_passes[i + 1])
           /\ ~WritesDepthTexture(frame_passes[i + 1])
           /\ frame_passes[i + 1].m = frame_passes[i].m
    /\ \A j \in DOMAIN frame_passes :
         SamplesDepthTexture(frame_passes[j]) =>
           /\ j - 1 \in DOMAIN frame_passes
           /\ WritesDepthTexture(frame_passes[j - 1])
           /\ frame_passes[j - 1].m = frame_passes[j].m
\* A frame with pre-passes of both variants has been recorded.
C3_Witness ==
  /\ example = "reversed_z" /\ frames > 0
  /\ \E i, j \in DOMAIN frame_passes :
       /\ WritesDepthTexture(frame_passes[i]) /\ frame_passes[i].m = 0
       /\ WritesDepthTexture(frame_passes[j]) /\ frame_passes[j].m = 1

\* C4: the pass list of a reversed_z frame is determined by the render mode
\* the frame started with: Color gives color(0), color(1); Precision_Error
\* gives prepass(0), precision(0), prepass(1), precision(1);
\* Depth_Texture_Quad gives prepass(0), quad(0), prepass(1), quad(1); and a
\* pass of variant m uses the pipeline, the uniform bind group and the pass
\* descriptor stored at index m (the pre-pass has one shared descriptor, the
\* quad pass the shared quad pipeline and the depth-texture bind group).
C4_ModePasses(mode) ==
  CASE mode = RenderMode_Color -> << <<"color", 0>>, <<"color", 1>> >>
    [] mode = RenderMode_Precision_Error ->
         << <<"depth_pre_pass", 0>>, <<"precision_error_pass", 0>>,
            <<"depth_pre_pass", 1>>, <<"precision_error_pass", 1>> >>
    [] mode = RenderMode_Depth_Texture_Quad ->
         << <<"depth_pre_pass", 0>>, <<"depth_texture_quad_pass", 0>>,
            <<"depth_pre_pass", 1>>, <<"depth_texture_quad_pass", 1>> >>
C4_Uses(p) ==
  CASE p.kind = "color" ->
         /\ p.pipeline_slot = color_pass_pipelines[p.m]
         /\ p.bind_group_slots = <<uniform_bind_groups[p.m]>>
         /\ p.desc_ptr = <<"draw_pass_descriptors", p.m>>
    [] p.kind = "depth_pre_pass" ->
         /\ p.pipeline_slot = depth_pre_pass_pipelines[p.m]
         /\ p.bind_group_slots = <<uniform_bind_groups[p.m]>>
         /\ p.desc_ptr = <<"depth_pre_pass_descriptor">>
    [] p.kind = "precision_error_pass" ->
         /\ p.pipeline_slot = precision_pass_pipelines[p.m]
         /\ p.bind_group_slots =
              <<uniform_bind_groups[p.m], "depth_texture_bind_group">>
         /\ p.desc_ptr = <<"draw_pass_descriptors", p.m>>
    [] p.kind = "depth_texture_quad_pass" ->
         /\ p.pipeline_slot = "texture_quad_pass_pipeline"
         /\ p.bind_group_slots = <<"depth_texture_bind_group">>
         /\ p.desc_ptr = <<"texture_quad_pass_descriptors", p.m>>
    [] OTHER -> FALSE
UniformWrites(log) ==
  {i \in DOMAIN log : log[i].op = "WriteBuffer" /\ log[i].buf = "uniform_buffer"}
C5_UniformsBeforeRecording ==
  (example = "reversed_z" /\ last_call = "example_render" /\ frames > 0
     /\ ~paused)
  => \E w \in UniformWrites(frame_log) :
       \A i \in Calls(frame_log, "CreateCommandEncoder")
                  \cup Begins(frame_log) \cup Calls(frame_log, "Submit") : w < i

\* C6: every reversed_z submission whose passes bind a uniform bind group
\* (and so read uniform_buffer) comes after a write to uniform_buffer.
ReadsUniformBuffer(p) ==
  \E k \in DOMAIN p.bind_group_slots :
    p.bind_group_slots[k] \in {uniform_bind_groups[0], uniform_bind_groups[1]}
C6_WriteBeforeSubmit ==
  example = "reversed_z" =>
    \A i \in Submissions(queue_log) :
      (\E c \in DOMAIN queue_log[i].cmds :
         \E k \in DOMAIN queue_log[i].cmds[c] :
           ReadsUniformBuffer(queue_log[i].cmds[c][k]))
      => \E j \in 1..(i - 1) :
           queue_log[j].op = "write" /\ queue_log[j].buffer = "uniform_buffer"

\* C7: after any reversed_z frames, every pass-descriptor field except the
\* view of a colour attachment equals its value at the end of
\* example_initialize.
WithoutViews(d) ==
  [d EXCEPT
     !.dpd_rp_color_att_descriptors =
        [m \in DOMAIN @ |-> [@[m] EXCEPT !.view = NULL]],
     !.tqd_rp_color_att_descriptors =
        [m \in DOMAIN @ |-> [@[m] EXCEPT !.view = NULL]],
     !.rp_color_att_descriptors =
        [m \in DOMAIN @ |-> [@[m] EXCEPT !.view = NULL]]]
C7_OnlyViewsWritten ==
  (example = "reversed_z" /\ frames > 0)
  => WithoutViews(descs) = WithoutViews(descs_at_init)

\* C8: the passes of a reversed_z frame, with every descriptor field they
\* read, are those a frame of the same mode and swap-chain view records
\* directly after example_initialize, whatever frames and mode switches came
\* before.
C8_FrameIndependentOfHistory ==
  (example = "reversed_z" /\ last_call = "example_render" /\ frames > 0)
  => frame_passes =
       build_command_buffer(example, descs_at_init, handles, frame_mode,
                            frame_view, FALSE).command_buffer
\* A Precision_Error frame has been recorded after the Color frame that follows
\* example_initialize and that overwrote the depth load ops of the draw pass.
C8_Witness ==
  /\ example = "reversed_z" /\ last_call = "example_render" /\ frames >= 2
  /\ frame_mode = RenderMode_Precision_Error
  /\ \E m \in {0, 1} :
       descs.dpd_rp_ds_att_descriptors[m].depthLoadOp
         # descs_at_init.dpd_rp_ds_att_descriptors[m].depthLoadOp

\* C9: current_render_mode is always one of the three modes; the passes of a
\* frame are those of the mode held when the frame started, and the mode
\* the overlay selects during the frame is the one the next frame starts with.
PassKinds(passes) == [i \in DOMAIN passes |-> <<passes[i].kind, passes[i].m>>]
C9_FrameStep ==
  (example = "reversed_z" /\ last_call' = "example_render" /\ prepared)
  => /\ PassKinds(frame_passes') = C4_ModePasses(current_render_mode)
     /\ frame_mode' = current_render_mode
     /\ current_render_mode' \in RenderModes
C9_ModeTakesEffectNextFrame ==
  /\ [](current_render_mode \in RenderModes)
  /\ [][C9_FrameStep]_vars
\* The overlay selected another mode than the one the frame was recorded with.
C9_Witness ==
  /\ example = "reversed_z" /\ last_call = "example_render" /\ frames >= 2
  /\ current_render_mode # frame_mode
  /\ PassKinds(frame_passes) = C4_ModePasses(frame_mode)

\* C10: when a create call of example_initialize has failed and
\* example_initialize returned, it returned non-zero and prepared is false.
C10_FailedInitNotPrepared ==
  (init_fail # 0 /\ phase = "initialized")
  => (init_ret # 0 /\ ~prepared /\ frames = 0)

\* C11: when the queue submission of a frame has failed, example_render has
\* submitted once (no retry) and returned a non-zero result.
C11_SubmitFailureReported ==
  (last_call = "example_render" /\ frames > 0 /\ submit_failed)
  => /\ Cardinality(Calls(frame_log, "Submit")) = 1
     /\ render_ret # 0

\* C12: over any sequence of example_initialize, frames and example_destroy
\* calls, no GPU handle held in module state is passed to a release call more
\* than once; a second example_destroy releases none of them again.  (The
\* camera of textured_quad is a host object owned by the context, not a GPU
\* handle of module state.)
GpuReleases ==
  {i \in DOMAIN release_log : release_log[i] # handles["context->camera"]}
TransientSlots == {"vert_shader", "frag_shader", "particle_comp_shader"}
HostSlots == {"context->camera"}
LongLivedSlots(e) ==
  UNION {Range(InitSteps(e)[i].slots) : i \in CreateSteps(e)}
    \ (TransientSlots \cup HostSlots)
Unreleased(e) ==
  {s \in LongLivedSlots(e) : handles[s] # NULL /\ handles[s] \notin Range(release_log)}
C13_AllReleasedByDestroy ==
  (init_ret = 0 /\ init_fail = 0 /\ destroys > 0 /\ last_call = "example_destroy")
  => Unreleased(example) = {}

\* C14: get_example_by_name returns the address of entry i for the name of
\* entry i, for every i below get_number_of_examples() (so no two entries
\* share a name), NULL for every string that is no registered name, and the
\* count is the number of distinct names.
C14_LookupInvertsRegistry ==
  /\ lookup_result # -1 =>
       /\ \A i \in 0..(get_number_of_examples - 1) :
            g_example_cases[i + 1] = lookup_name => lookup_result = i + 1
       /\ lookup_name \notin Range(g_example_cases) => lookup_result = NULL
  /\ lookup_count # -1 =>
       lookup_count = Cardinality(Range(g_example_cases))
\* The last registered name has been looked up and the count has been asked.
C14_Witness ==
  /\ lookup_name = "wireframe_vertex_pulling"
  /\ lookup_result = get_number_of_examples
  /\ lookup_count = 60

\* C15: in each of the three reversed_z pipeline families the pipeline at
\* index 0 is created with depth compare Less and the pipeline at index 1
\* with depth compare Greater, from descriptors (and shader stages) that are
\* otherwise identical.
PipelineCreates(slot) ==
  {i \in DOMAIN init_log :
     init_log[i].call = "wgpuDeviceCreateRenderPipeline"
     /\ init_log[i].slots = <<slot>>}
WithoutDepthCompare(d) == [d EXCEPT !.depthStencilState.depthCompare = "any"]
C15_FamiliesDifferInDepthCompare ==
  (example = "reversed_z" /\ phase = "initialized") =>
    \A f \in PipelineFamilies :
      /\ Cardinality(PipelineCreates(f[0])) = 1
      /\ Cardinality(PipelineCreates(f[1])) = 1
      /\ \A i \in PipelineCreates(f[0]), j \in PipelineCreates(f[1]) :
           /\ init_log[i].desc[1].depthStencilState.depthCompare = "Less"
           /\ init_log[j].desc[1].depthStencilState.depthCompare = "Greater"
           /\ WithoutDepthCompare(init_log[i].desc[1])
                = WithoutDepthCompare(init_log[j].desc[1])
           /\ init_log[i].reads = init_log[j].reads
\* example_initialize of reversed_z has created all six pipelines.
C15_Witness ==
  /\ example = "reversed_z" /\ phase = "initialized" /\ init_ret = 0
  /\ init_fail = 0
  /\ \A f \in PipelineFamilies : \A m \in {0, 1} : handles[f[m]] # NULL

\* C16: in every reversed_z frame the depth attachment of each pass of
\* variant m has clear depth depth_load_values[m]: 1.0 for the default
\* variant (index 0), 0.0 for the reversed variant (index 1).
C16_ClearDepthPerVariant ==
  (example = "reversed_z" /\ frames > 0) =>
    \A i \in DOMAIN frame_passes :
      frame_passes[i].desc.ds # <<>> =>
        frame_passes[i].desc.ds[1].clearDepth
          = depth_load_values[frame_passes[i].m]

\* C17: each update_uniform_buffers of reversed_z issues exactly one buffer
\* write, to uniform_buffer at offset 0 with size uniform_buffer_size =
\* num_instances * matrix_stride = 1280 bytes, and the matrix of instance i
\* is copied to bytes [256 * i, 256 * i + 64) of mvp_matrices_data, inside
\* the array.
C17_UniformWriteCoversBlock ==
  \A k \in DOMAIN uniform_update :
    LET u == uniform_update[k]
    IN /\ Len(u.writes) = 1
       /\ u.writes[1].buffer = "uniform_buffer"
       /\ u.writes[1].offset = 0
       /\ u.writes[1].size = uniform_buffer_size
       /\ uniform_buffer_size = 1280
       /\ Len(u.copies) = 5
       /\ \A c \in DOMAIN u.copies :
            /\ u.copies[c].instance = c - 1
            /\ u.copies[c].first_byte = 256 * (c - 1)
            /\ u.copies[c].size = 64
            /\ u.copies[c].index >= 0
            /\ u.copies[c].index + (u.copies[c].size \div SizeofFloat)
                 <= mvp_matrices_data_count
\* A reversed_z frame that was not paused has updated the uniform buffer.
C17_Witness ==
  /\ example = "reversed_z" /\ last_call = "example_render" /\ ~paused
  /\ uniform_update # <<>>
  /\ \E i \in DOMAIN frame_log :
       frame_log[i].op = "WriteBuffer" /\ frame_log[i].buf = "uniform_buffer"

\* C18 as stated: every reversed_z tick that is not paused writes
\* uniform_buffer, camera_matrix_buffer and
\* camera_matrix_reversed_depth_buffer.
BufferWrites(log, buffer) ==
  {i \in DOMAIN log : log[i].op = "WriteBuffer" /\ log[i].buf = buffer}
QueueWrites(buffer) ==
  {i \in DOMAIN queue_log :
     queue_log[i].op = "write" /\ queue_log[i].buffer = buffer}
CameraBuffers == {"camera_matrix_buffer", "camera_matrix_reversed_depth_buffer"}
C18_AllMatricesWrittenEachTick ==
  (example = "reversed_z" /\ last_call = "example_render" /\ frames > 0
     /\ ~paused)
  => \A b \in {"uniform_buffer"} \cup CameraBuffers :
       BufferWrites(frame_log, b) # {}
\* C18 amended: a reversed_z tick that is not paused recomputes the model
\* matrices and writes them to uniform_buffer, once, and writes no other
\* buffer; the view-projection matrix and the reversed-range view-projection
\* matrix are computed and written to camera_matrix_buffer and
\* camera_matrix_reversed_depth_buffer once, by example_initialize, before
\* the first submission, and no tick writes them again.
C18_TickWritesUniformBufferOnly ==
  example = "reversed_z" =>
    /\ (last_call = "example_render" /\ frames > 0 /\ ~paused) =>
         /\ Cardinality(BufferWrites(frame_log, "uniform_buffer")) = 1
         /\ Calls(frame_log, "WriteBuffer") = BufferWrites(frame_log, "uniform_buffer")
         /\ uniform_update # <<>>
    /\ phase = "initialized" =>
         \A b \in CameraBuffers :
           /\ Cardinality(QueueWrites(b)) = 1
           /\ \A w \in QueueWrites(b), k \in Submissions(queue_log) : w < k
\* Two reversed_z frames have run and the last one was not paused.
C18_Witness ==
  /\ example = "reversed_z" /\ last_call = "example_render" /\ frames >= 2
  /\ ~paused /\ phase = "initialized"
  /\ BufferWrites(frame_log, "uniform_buffer") # {}

\* C19: in every reversed_z frame, whatever the render mode, each pass of
\* variant m sets the viewport x = 300*m, y = 0, width 300, height 600; the
\* columns of the two variants' viewports are disjoint and together are the
\* 600 columns of the canvas.
Columns(viewport) == viewport[1] .. (viewport[1] + viewport[3] - 1)
VariantColumns(m) ==
  UNION {Columns(frame_passes[i].viewport) :
           i \in {j \in DOMAIN frame_passes : frame_passes[j].m = m}}
C19_ViewportPerVariant ==
  (example = "reversed_z" /\ last_call = "example_render" /\ frames > 0) =>
    /\ \A i \in DOMAIN frame_passes :
         frame_passes[i].viewport = <<300 * frame_passes[i].m, 0, 300, 600>>
    /\ {frame_passes[i].m : i \in DOMAIN frame_passes} = {0, 1}
    /\ VariantColumns(0) \cap VariantColumns(1) = {}
    /\ VariantColumns(0) \cup VariantColumns(1) = 0 .. (DEFAULT_CANVAS_WIDTH - 1)
\* A depth-texture-quad frame has run: four passes, two per variant.
C19_Witness ==
  /\ example = "reversed_z" /\ last_call = "example_render" /\ frames > 0
  /\ frame_mode = RenderMode_Depth_Texture_Quad
  /\ Len(frame_passes) = 4
  /\ \E i \in DOMAIN frame_passes : frame_passes[i].viewport[1] = 300

\* C20: depth_range_remap_matrix is invertible, and for every
\* view-projection matrix VP of bounded integer entries
\* remap^-1 * (remap * VP) = VP exactly; remap * VP keeps the x, y and w rows
\* of VP and its z row is the w row minus the z row.
Others(k) == SelectSeq(<<1, 2, 3, 4>>, LAMBDA x : x # k)
Det3(M, rows, cols) ==
  LET e(i, j) == M[cols[j]][rows[i]]
  IN e(1, 1) * (e(2, 2) * e(3, 3) - e(2, 3) * e(3, 2))
       - e(1, 2) * (e(2, 1) * e(3, 3) - e(2, 3) * e(3, 1))
       + e(1, 3) * (e(2, 1) * e(3, 2) - e(2, 2) * e(3, 1))
Cofactor(M, r, c) ==
  (IF (r + c) % 2 = 0 THEN 1 ELSE -1) * Det3(M, Others(r), Others(c))
Det4(M) ==
  M[1][1] * Cofactor(M, 1, 1) + M[2][1] * Cofactor(M, 1, 2)
    + M[3][1] * Cofactor(M, 1, 3) + M[4][1] * Cofactor(M, 1, 4)
\* Integer division by a negative divisor is avoided: the sign is moved.
ExactQuotient(a, d) == IF d > 0 THEN a \div d ELSE (0 - a) \div (0 - d)
mat4_inverse(M) ==
  [c \in Mat4Index |->
     [r \in Mat4Index |-> ExactQuotient(Cofactor(M, c, r), Det4(M))]]
remap_inverse == mat4_inverse(depth_range_remap_matrix)
C20_RemapUndone ==
  /\ Det4(depth_range_remap_matrix) # 0
  /\ glm_mat4_mul(remap_inverse, depth_range_remap_matrix) = GLM_MAT4_IDENTITY_INIT
  /\ glm_mat4_mul(depth_range_remap_matrix, remap_inverse) = GLM_MAT4_IDENTITY_INIT
  /\ remapped =>
       /\ glm_mat4_mul(remap_inverse, reversed_range_view_projection_matrix)
            = view_projection_matrix
       /\ \A c \in Mat4Index :
            /\ \A r \in {1, 2, 4} :
                 reversed_range_view_projection_matrix[c][r]
                   = view_projection_matrix[c][r]
            /\ reversed_range_view_projection_matrix[c][3]
                 = view_projection_matrix[c][4] - view_projection_matrix[c][3]
\* A matrix with a z row and a w row that differ from the identity's has
\* been remapped, and the remap changed it.
C20_Witness ==
  /\ remapped
  /\ vp_edits = MaxEdits
  /\ view_projection_matrix[3][3] = -1
  /\ view_projection_matrix[3][4] = 1
  /\ reversed_range_view_projection_matrix # view_projection_matrix

\* C21: after setup_uniform_bind_groups of a reversed_z initialize in which
\* every create call succeeds, uniform_bind_groups[0] and
\* uniform_bind_groups[1] hold two distinct handles made by two create calls,
\* one per slot; the call for index 0 binds camera_matrix_buffer and the call
\* for index 1 binds camera_matrix_reversed_depth_buffer at binding 1, both
\* bind the one uniform_buffer at binding 0, and each slot holds the result
\* of its own call.
BindGroupCreates(slot) ==
  {i \in DOMAIN init_log :
     init_log[i].call = "wgpuDeviceCreateBindGroup"
     /\ init_log[i].slots = <<slot>>}
BoundBuffer(i, binding) ==
  LET e == init_log[i].desc[1].entries[binding + 1]
  IN [binding |-> e.binding, slot |-> e.buffer,
      handle |-> IF e.buffer \in DOMAIN init_log[i].reads
                 THEN init_log[i].reads[e.buffer] ELSE NULL]
C21_TwoUniformBindGroups ==
  (example = "reversed_z" /\ phase = "initialized" /\ init_fail = 0) =>
    /\ \A m \in {0, 1} : Cardinality(BindGroupCreates(uniform_bind_groups[m])) = 1
    /\ \A i \in BindGroupCreates(uniform_bind_groups[0]),
          j \in BindGroupCreates(uniform_bind_groups[1]) :
         /\ i # j
         /\ init_log[i].result[1] # NULL /\ init_log[j].result[1] # NULL
         /\ init_log[i].result[1] # init_log[j].result[1]
         /\ BoundBuffer(i, 0).binding = 0 /\ BoundBuffer(j, 0).binding = 0
         /\ BoundBuffer(i, 0).slot = "uniform_buffer"
         /\ BoundBuffer(i, 0).handle = BoundBuffer(j, 0).handle
         /\ BoundBuffer(i, 0).handle # NULL
         /\ BoundBuffer(i, 1).slot = "camera_matrix_buffer"
         /\ BoundBuffer(j, 1).slot = "camera_matrix_reversed_depth_buffer"
         /\ BoundBuffer(i, 1).handle # BoundBuffer(j, 1).handle
         /\ BoundBuffer(i, 1).handle # NULL /\ BoundBuffer(j, 1).handle # NULL
         /\ destroys = 0 =>
              /\ handles[uniform_bind_groups[0]] = init_log[i].result[1]
              /\ handles[uniform_bind_groups[1]] = init_log[j].result[1]
\* A reversed_z initialize has succeeded and both slots are assigned.
C21_Witness ==
  /\ example = "reversed_z" /\ phase = "initialized" /\ init_fail = 0
  /\ destroys = 0
  /\ handles[uniform_bind_groups[0]] # NULL
  /\ handles[uniform_bind_groups[1]] # NULL
  /\ handles[uniform_bind_groups[0]] # handles[uniform_bind_groups[1]]

\* C22: in every pipeline-preparation function each shader module made by
\* wgpu_shader_create is released exactly once by the same function, after
\* every pipeline creation of that function that reads it (there is at least
\* one) and none before; once initialize has returned, every shader handle
\* has been released exactly once.
ShaderCreates == {i \in DOMAIN init_log : init_log[i].call = "wgpu_shader_create"}
ShaderReleasesOf(i) ==
  {j \in {x \in DOMAIN init_log : init_log[x].call = "wgpu_shader_release"} :
     init_log[j].fn = init_log[i].fn /\ init_log[j].slots = init_log[i].slots}
PipelineUsesOf(i) ==
  {k \in DOMAIN init_log :
     /\ init_log[k].call \in {"wgpuDeviceCreateRenderPipeline",
                              "wgpuDeviceCreateComputePipeline"}
     /\ init_log[k].fn = init_log[i].fn
     /\ init_log[i].slots[1] \in DOMAIN init_log[k].reads}
TimesReleased(handle) ==
  Cardinality({j \in DOMAIN release_log : release_log[j] = handle})
C22_ShadersReleasedAfterPipelines ==
  phase = "initialized" =>
    \A i \in ShaderCreates :
      /\ Cardinality(ShaderReleasesOf(i)) = 1
      /\ PipelineUsesOf(i) # {}
      /\ \A j \in ShaderReleasesOf(i), k \in PipelineUsesOf(i) :
           /\ i < k /\ k < j
           /\ init_log[k].reads[init_log[i].slots[1]] = init_log[i].result[1]
      /\ init_log[i].result[1] # NULL => TimesReleased(init_log[i].result[1]) = 1
\* compute_particles has initialized: its compute shader was created, read
\* by the compute pipeline and released.
C22_Witness ==
  /\ example = "compute_particles" /\ phase = "initialized" /\ init_fail = 0
  /\ \E i \in ShaderCreates :
       /\ init_log[i].fn = "prepare_compute"
       /\ TimesReleased(init_log[i].result[1]) = 1

\* C23: in every compute_particles frame the compute pass, whose bind group
\* was created over compute.storage_buffer, is begun and ended before the
\* render pass that takes compute.storage_buffer as its vertex buffer is
\* begun, and both passes, in that order, are the one command buffer the
\* frame submits.
StorageBindGroupCreates ==
  {i \in DOMAIN init_log :
     /\ init_log[i].slots = <<"compute.bind_group">>
     /\ "compute.storage_buffer" \in DOMAIN init_log[i].reads}
C23_ComputeBeforeRender ==
  (example = "compute_particles" /\ last_call = "example_render" /\ frames > 0) =>
    /\ Cardinality(Calls(frame_log, "BeginComputePass")) = 1
    /\ Cardinality(Calls(frame_log, "BeginRenderPass")) = 1
    /\ StorageBindGroupCreates # {}
    /\ \A c \in Calls(frame_log, "BeginComputePass"),
          r \in Calls(frame_log, "BeginRenderPass") :
         /\ \E e \in Calls(frame_log, "EndPass") :
              frame_log[e].idx = frame_log[c].idx /\ c < e /\ e < r
         /\ frame_passes[frame_log[c].idx].kind = "compute"
         /\ frame_passes[frame_log[c].idx].bind_group_slots = <<"compute.bind_group">>
         /\ frame_passes[frame_log[r].idx].kind = "render"
         /\ frame_passes[frame_log[r].idx].vertex_slot = "compute.storage_buffer"
         /\ destroys = 0 =>
              \A i \in StorageBindGroupCreates :
                init_log[i].reads["compute.storage_buffer"]
                  = frame_passes[frame_log[r].idx].vertex_buffer
    /\ submit_info.command_buffers = <<frame_passes>>
    /\ \A k \in Submissions(queue_log) :
         /\ Len(queue_log[k].cmds) = 1
         /\ [p \in 1..Len(queue_log[k].cmds[1]) |-> queue_log[k].cmds[1][p].kind]
              = <<"compute", "render">>
\* A compute_particles frame has been recorded and submitted over live handles.
C23_Witness ==
  /\ example = "compute_particles" /\ last_call = "example_render"
  /\ frames > 0 /\ init_fail = 0 /\ destroys = 0
  /\ Len(frame_passes) = 2
  /\ frame_passes[2].vertex_buffer # NULL
  /\ Submissions(queue_log) # {}

\* C24: in every reversed_z frame, in each render mode, the first recorded
\* pass with a colour attachment loads it with Clear, every later pass with
\* a colour attachment loads it with Load, and all of them target the
\* swap-chain view of the frame.
ColourPasses == {i \in DOMAIN frame_passes : frame_passes[i].desc.color # <<>>}
FirstColourPass == CHOOSE i \in ColourPasses : \A j \in ColourPasses : i <= j
C24_ClearThenLoad ==
  (example = "reversed_z" /\ last_call = "example_render" /\ frames > 0) =>
    /\ Cardinality(ColourPasses) = 2
    /\ \A i \in ColourPasses :
         /\ frame_passes[i].desc.colorAttachmentCount = 1
         /\ frame_passes[i].desc.color[1].view = frame_view
         /\ frame_passes[i].desc.color[1].loadOp =
              IF i = FirstColourPass THEN WGPULoadOp_Clear ELSE WGPULoadOp_Load
    /\ frame_passes[FirstColourPass].m = 0
    /\ \A i \in ColourPasses \ {FirstColourPass} : frame_passes[i].m = 1
\* A depth-texture-quad frame: passes 2 and 4 have the colour attachment.
C24_Witness ==
  /\ example = "reversed_z" /\ last_call = "example_render" /\ frames > 0
  /\ frame_mode = RenderMode_Depth_Texture_Quad
  /\ ColourPasses = {2, 4}
  /\ frame_passes[4].desc.color[1].loadOp = WGPULoadOp_Load

\* C25: within build_command_buffer of each example at most one pass encoder
\* is open at any moment: a pass that is begun is ended and its encoder
\* released before the next pass begins, no pass is open when the command
\* buffer is obtained, and the command encoder is released only after that.
OpenPasses(log, k) ==
  {i \in Begins(log) :
     /\ i <= k
     /\ ~\E j \in Calls(log, "EndPass") : log[j].idx = log[i].idx /\ i < j /\ j <= k}
UnreleasedEncoders(log, k) ==
  {i \in Begins(log) :
     /\ i <= k
     /\ ~\E j \in Calls(log, "ReleasePassEncoder") :
           log[j].idx = log[i].idx /\ i < j /\ j <= k}
C25_OnePassOpen ==
  (last_call = "example_render" /\ frames > 0) =>
    /\ \A k \in DOMAIN frame_log : Cardinality(OpenPasses(frame_log, k)) <= 1
    /\ \A b \in Begins(frame_log) :
         /\ OpenPasses(frame_log, b) = {b}
         /\ UnreleasedEncoders(frame_log, b) = {b}
    /\ \A g \in Calls(frame_log, "GetCommandBuffer") :
         /\ OpenPasses(frame_log, g) = {}
         /\ UnreleasedEncoders(frame_log, g) = {}
         /\ \A b \in Begins(frame_log) : b < g
         /\ \A c \in Calls(frame_log, "CreateCommandEncoder") :
              c < g /\ \A b \in Begins(frame_log) : c < b
    /\ Cardinality(Calls(frame_log, "GetCommandBuffer")) = 1
    /\ Cardinality(Calls(frame_log, "ReleaseCommandEncoder")) = 1
    /\ \A r \in Calls(frame_log, "ReleaseCommandEncoder"),
          g \in Calls(frame_log, "GetCommandBuffer") : g < r
\* A precision-error frame of reversed_z: four passes were begun, each while
\* no other was open.
C25_Witness ==
  /\ example = "reversed_z" /\ last_call = "example_render" /\ frames > 0
  /\ frame_mode = RenderMode_Precision_Error
  /\ Cardinality(Begins(frame_log)) = 4
  /\ Cardinality(Calls(frame_log, "ReleasePassEncoder")) = 4

\* C26: a prepared reversed_z example_render that finds context->paused true
\* still records the passes of the mode and submits exactly one command
\* buffer, but writes nothing to uniform_buffer and leaves mvp_matrices_data
\* as it was.
C26_PausedStep ==
  (example = "reversed_z" /\ prepared /\ last_call' = "example_render"
     /\ frames' = frames + 1 /\ paused')
  => /\ PassKinds(frame_passes') = C4_ModePasses(current_render_mode)
     /\ frame_passes' # <<>>
     /\ Cardinality(Calls(frame_log', "Submit")) = 1
     /\ submit_info'.command_buffer_count = 1
     /\ submit_info'.command_buffers = <<frame_passes'>>
     /\ Cardinality(Submissions(queue_log')) = Cardinality(Submissions(queue_log)) + 1
     /\ BufferWrites(frame_log', "uniform_buffer") = {}
     /\ Calls(frame_log', "WriteBuffer") = {}
     /\ Len(queue_log') = Len(queue_log) + 1
     /\ mvp_matrices_data' = mvp_matrices_data
     /\ uniform_update' = uniform_update
C26_PausedStillDraws == [][C26_PausedStep]_vars
\* An unpaused frame then a paused one: the block still holds the first
\* frame's matrices, and the second frame was drawn and submitted.
C26_Witness ==
  /\ example = "reversed_z" /\ last_call = "example_render" /\ paused
  /\ frames = 2 /\ mvp_matrices_data = 1
  /\ frame_passes # <<>>
  /\ Cardinality(Submissions(queue_log)) = 2

\* C27: once example_destroy has run, a later example_render returns 1,
\* records no pass and submits nothing.
C27_RenderAfterDestroyStep ==
  (destroys > 0 /\ last_call' = "example_render" /\ destroys' = destroys)
  => /\ render_ret' = 1
     /\ frames' = frames
     /\ queue_log' = queue_log
     /\ frame_passes' = frame_passes
C27_NoRenderAfterDestroy == [][C27_RenderAfterDestroyStep]_vars

\* C28: every wgpu_create_buffer_from_data call passes a byte size no larger
\* than the byte size of the array it copies from.
BufferFromDataCalls ==
  {i \in DOMAIN init_log : init_log[i].call = "wgpu_create_buffer_from_data"}
C28_UploadWithinSource ==
  \A i \in BufferFromDataCalls :
    init_log[i].desc[1].size <= init_log[i].desc[1].array_bytes

\* C29: in example_initialize every module value a step reads was assigned
\* by an earlier step of the same initialize.
AssigningCalls(i) ==
  {j \in 1..(i - 1) :
     init_log[j].call \notin {"wgpu_shader_release", "wgpu_queue_write_buffer"}}
C29_ReadsAfterAssignment ==
  \A i \in DOMAIN init_log :
    \A r \in DOMAIN init_log[i].reads :
      \E j \in AssigningCalls(i) : r \in Range(init_log[j].slots)

\* C30: every example entry point declared as example_<n> has exactly one
\* registry entry whose name is <n> and whose function is example_<n>, and a
\* lookup of <n> returns that entry.
EntriesOf(n) ==
  {i \in DOMAIN g_example_cases :
     g_example_cases[i] = n /\ g_example_case_funcs[i] = "example_" \o n}
C30_DeclaredExamplesRegistered ==
  /\ \A k \in DOMAIN example_declarations :
       Cardinality(EntriesOf(example_declarations[k])) = 1
  /\ (lookup_result # -1 /\ lookup_name \in Range(example_declarations)) =>
       lookup_result \in EntriesOf(lookup_name)
====
